---- MODULE Spec2Model ----
(***************************************************************************)
(* A model of AwsTranslateManager (src/service/translationManger.js, the   *)
(* CommonJS class exported at line 817) together with autoTranslateMissing *)
(* of the ES-module variant (src/unnamed/part_001).                        *)
(*                                                                         *)
(* Text held in the object store is a sequence of tokens (punctuation,     *)
(* white space, quoted string literals, bare words); JSON.stringify and    *)
(* JSON.parse are computed on those tokens.                                *)
(***************************************************************************)
EXTENDS Integers, Sequences, FiniteSets, TLC

VARIABLES
  iamRoleArn,          \* this.iamRoleArn ("" when the option is absent)
  dictionaryEntries,   \* this._dictionaryEntries when it is an array of entries
  dictShape,           \* "array", or "other" when _dictionaryEntries holds another JSON value
  jsonObject,          \* the object at this.jsonKey: [exists, body]
  saved,               \* history: the list written by the last successful save to jsonKey
  last,                \* history: the last call, its arguments, faults and outcome
  bulk,                \* the call of startBulkTranslation in progress: its position and locals
  csvObject,           \* the object at this.csvKey: [exists, body]
  opCall,              \* history: the last call of one of the other operations
  pending              \* the call suspended at an await, and the entry objects of the list

vars == <<iamRoleArn, dictionaryEntries, dictShape, jsonObject, saved, last, bulk,
          csvObject, opCall, pending>>

-----------------------------------------------------------------------------
(* Bounds of the model *)

\* the longest list addOrUpdateDictionaryEntry is let to build (the code has no cap)
MaxEntries == 3
\* the longest list of target languages handed to startBulkTranslation
MaxLangs == 2
\* the longest dictionary convertJsonToAwsCsvAndUpload is given
MaxDict == 2

-----------------------------------------------------------------------------
(* Strings *)

\* the (source, targetLang) arguments of deleteDictionaryEntry; <<"", "fr">> is a call
\* without a source, which validation rejects
ArgPairs == { <<"a", "fr">>, <<"A", "FR">>, <<"b", "fr">>, <<"", "fr">> }

\* the (source, targetLang, translation) arguments of addOrUpdateDictionaryEntry; " " is
\* a non-empty translation that is blank after trim()
AddArgs ==
  { <<"a", "fr", "x">>, <<"a", "fr", " ">>, <<"A", "FR", "x">>, <<"A", "FR", " ">>,
    <<"b", "fr", "x">>, <<"", "fr", "x">> }

defaultTargetLanguage == "fr"

\* String.prototype.toLowerCase on the strings of the model
toLowerCase(s) ==
  CASE s = "A" -> "a"
    [] s = "B" -> "b"
    [] s = "FR" -> "fr"
    [] s = "DE" -> "de"
    [] s = " FR " -> " fr "
    [] OTHER -> s

WhiteTokens == {" ", "  ", "\t", "\r", "\n"}

\* String.prototype.trim on the strings of the model
trim(s) ==
  CASE s \in WhiteTokens -> ""
    [] s = " a " -> "a"
    [] s = " fr " -> "fr"
    [] s = " FR " -> "FR"
    [] OTHER -> s

\* TranslatedText of the translation service's reply for (Text, TargetLanguageCode)
TranslatedText(text, lang) == text \o "@" \o lang

-----------------------------------------------------------------------------
(* JSON values: every value is a record [t, s, a], so that any two compare *)

JStr(s) == [t |-> "str", s |-> s, a |-> <<>>]
JNull == [t |-> "null", s |-> "", a |-> <<>>]
JArr(elems) == [t |-> "arr", s |-> "", a |-> elems]
JPair(k, v) == [t |-> "pair", s |-> k, a |-> <<v>>]
JObj(pairs) == [t |-> "obj", s |-> "", a |-> pairs]

\* obj[key] = v of JavaScript: an own key keeps its place, a new key goes last
ObjSet(pairs, k, v) ==
  IF \E i \in 1..Len(pairs) : pairs[i].s = k
    THEN [i \in 1..Len(pairs) |-> IF pairs[i].s = k THEN JPair(k, v) ELSE pairs[i]]
    ELSE Append(pairs, JPair(k, v))

HasField(o, k) == o.t = "obj" /\ \E i \in 1..Len(o.a) : o.a[i].s = k

\* o[k] for a key the object has
Field(o, k) == o.a[CHOOSE i \in 1..Len(o.a) : o.a[i].s = k].a[1]

\* the token of a string literal
Quote(s) == "\"" \o s \o "\""

\* the input texts handed to the manual fallback of startBulkTranslation
Texts ==
  << <<"[", Quote("a"), ",", Quote("b"), "]">>,
     <<"{", Quote("translations"), ":", "[", Quote("a"), "]", "}">>,
     <<"{", Quote("translations"), ":", "[", "]", "}">>,
     <<"[", "]">>,
     <<"a", "\n", "\n", "b", "\n">>,
     <<"null">>,
     <<Quote("a")>>,
     <<"[", "\n", "  ", Quote("a"), "\n", "]">>,
     <<" ", "\n", " ", "a", " ", "\r", "\n", "\t">>,
     <<"[", "{", Quote("Text"), ":", Quote("a"), ",", Quote("text"), ":", Quote("b"), "}", ",",
       "{", Quote("other"), ":", Quote("b"), ",", Quote("source"), ":", Quote("c"), "}", ",",
       "null", ",", Quote(""), "]">>,
     <<"[", Quote("a"), ",">>,
     <<"a", "\r", "b", "\n", "\r", "\r", "\n", "c">>,
     <<"[", "{", Quote("Text"), ":", Quote(""), ",", Quote("text"), ":", Quote("b"), ",",
            Quote("source"), ":", Quote("c"), "}", ",",
       "{", Quote("text"), ":", Quote(""), ",", Quote("source"), ":", Quote("c"), "}", ",",
       "{", Quote("Text"), ":", Quote(""), "}", ",", "{", "}", ",", "[", Quote("a"), "]", "]">> >>

\* the language tags startBulkTranslation is asked for
LangTags == {"fr", "de", "original"}

RECURSIVE Concat(_)

\* the text a sequence of tokens spells
Concat(toks) == IF toks = <<>> THEN "" ELSE Head(toks) \o Concat(Tail(toks))

RECURSIVE SplitAt(_, _, _)

\* the pieces of toks[i..] between line breaks (\n, or \r\n), cur being the piece so far
SplitAt(toks, i, cur) ==
  IF i > Len(toks) THEN <<cur>>
  ELSE IF toks[i] = "\n" THEN <<cur>> \o SplitAt(toks, i + 1, <<>>)
  ELSE IF toks[i] = "\r" /\ i < Len(toks) /\ toks[i + 1] = "\n"
    THEN <<cur>> \o SplitAt(toks, i + 2, <<>>)
  ELSE SplitAt(toks, i + 1, Append(cur, toks[i]))

\* a faulty variant of splitLines: the lines are trimmed
splitLinesTrimmed(rawText) ==
  LET pieces == SplitAt(rawText, 1, <<>>)
      kept == SelectSeq(pieces, LAMBDA l : \E k \in 1..Len(l) : l[k] \notin WhiteTokens)
  IN [k \in 1..Len(kept) |-> Concat(SelectSeq(kept[k], LAMBDA t : t \notin WhiteTokens))]

\* rawText.split(/\r?\n/).filter((line) => line.trim() !== ""), each line as its text
splitLines(rawText) ==
  LET pieces == SplitAt(rawText, 1, <<>>)
      kept == SelectSeq(pieces, LAMBDA l : \E k \in 1..Len(l) : l[k] \notin WhiteTokens)
  IN [k \in 1..Len(kept) |-> Concat(kept[k])]

\* the lines splitLines finds in the sample texts, written out
LineStrs ==
  { "[",
    "[]",
    "]",
    "\"a\"",
    "a",
    "c",
    "b",
    " a ",
    "null",
    "[\"a\",\"b\"]",
    "{\"translations\":[\"a\"]}",
    "{\"translations\":[]}",
    "  \"a\"",
    "[{\"Text\":\"a\",\"text\":\"b\"},{\"other\":\"b\",\"source\":\"c\"},null,\"\"]",
    "[\"a\",",
    "a\rb",
    "[{\"Text\":\"\",\"text\":\"b\",\"source\":\"c\"},{\"text\":\"\",\"source\":\"c\"},{\"Text\":\"\"},{},[\"a\"]]" }

\* the strings that occur in texts of the model
Strs ==
  LET base == {"a", "A", "b", "B", "c", "fr", "FR", "de", "x", "y", " ", "", " a ",
               "source", "language", "translation", "translations",
               "Text", "text", "other", "original"}
      lines == LineStrs
      units == {"a", "A", "b", "c"} \cup lines
  IN base \cup lines \cup { TranslatedText(u, l) : u \in units, l \in LangTags \cup {"FR"} }

StrToks == { Quote(s) : s \in Strs }

UnquoteOf == [tok \in StrToks |-> CHOOSE s \in Strs : Quote(s) = tok]

IsStrTok(tok) == tok \in StrToks

Unquote(tok) == UnquoteOf[tok]

Indent(depth) == [i \in 1..depth |-> "  "]

RECURSIVE Stringify(_, _)
RECURSIVE StringifyItems(_, _, _)

\* the elements or members of a non-empty array or object, from index i on
StringifyItems(items, i, depth) ==
  IF i > Len(items) THEN <<>>
  ELSE LET it == items[i]
           one == IF it.t = "pair"
                    THEN <<Quote(it.s), ":", " ">> \o Stringify(it.a[1], depth)
                    ELSE Stringify(it, depth)
       IN <<"\n">> \o Indent(depth) \o one
            \o (IF i < Len(items) THEN <<",">> ELSE <<>>)
            \o StringifyItems(items, i + 1, depth)

\* JSON.stringify(v, null, 2) at nesting depth `depth`
Stringify(v, depth) ==
  CASE v.t = "str" -> <<Quote(v.s)>>
    [] v.t = "null" -> <<"null">>
    [] v.t = "arr" ->
         IF Len(v.a) = 0 THEN <<"[", "]">>
         ELSE <<"[">> \o StringifyItems(v.a, 1, depth + 1) \o <<"\n">> \o Indent(depth) \o <<"]">>
    [] OTHER ->
         IF Len(v.a) = 0 THEN <<"{", "}">>
         ELSE <<"{">> \o StringifyItems(v.a, 1, depth + 1) \o <<"\n">> \o Indent(depth) \o <<"}">>

JSONstringify(v) == Stringify(v, 0)

\* the first index from i on that holds no white space (Len + 1 if none)
SkipWs(toks, i) ==
  LET S == { j \in i..Len(toks) : toks[j] \notin WhiteTokens }
  IN IF S = {} THEN Len(toks) + 1 ELSE CHOOSE j \in S : \A k \in S : j <= k

ParseFail == [ok |-> FALSE, v |-> JNull, i |-> 0]

RECURSIVE ParseValue(_, _)
RECURSIVE ParseElems(_, _, _)
RECURSIVE ParseMembers(_, _, _)

ParseElems(toks, i0, acc) ==
  LET r == ParseValue(toks, i0)
  IN IF ~r.ok THEN ParseFail
     ELSE LET j == SkipWs(toks, r.i)
          IN IF j > Len(toks) THEN ParseFail
             ELSE IF toks[j] = "," THEN ParseElems(toks, j + 1, Append(acc, r.v))
             ELSE IF toks[j] = "]" THEN [ok |-> TRUE, v |-> JArr(Append(acc, r.v)), i |-> j + 1]
             ELSE ParseFail

ParseMembers(toks, i0, acc) ==
  LET k == SkipWs(toks, i0)
  IN IF k > Len(toks) \/ ~IsStrTok(toks[k]) THEN ParseFail
     ELSE LET c == SkipWs(toks, k + 1)
          IN IF c > Len(toks) \/ toks[c] # ":" THEN ParseFail
             ELSE LET r == ParseValue(toks, c + 1)
                  IN IF ~r.ok THEN ParseFail
                     ELSE LET j == SkipWs(toks, r.i)
                              acc2 == ObjSet(acc, Unquote(toks[k]), r.v)
                          IN IF j > Len(toks) THEN ParseFail
                             ELSE IF toks[j] = "," THEN ParseMembers(toks, j + 1, acc2)
                             ELSE IF toks[j] = "}" THEN [ok |-> TRUE, v |-> JObj(acc2), i |-> j + 1]
                             ELSE ParseFail

ParseValue(toks, i0) ==
  LET i == SkipWs(toks, i0)
  IN IF i > Len(toks) THEN ParseFail
     ELSE IF toks[i] = "[" THEN
            LET j == SkipWs(toks, i + 1)
            IN IF j <= Len(toks) /\ toks[j] = "]"
                 THEN [ok |-> TRUE, v |-> JArr(<<>>), i |-> j + 1]
                 ELSE ParseElems(toks, i + 1, <<>>)
     ELSE IF toks[i] = "{" THEN
            LET j == SkipWs(toks, i + 1)
            IN IF j <= Len(toks) /\ toks[j] = "}"
                 THEN [ok |-> TRUE, v |-> JObj(<<>>), i |-> j + 1]
                 ELSE ParseMembers(toks, i + 1, <<>>)
     ELSE IF IsStrTok(toks[i]) THEN [ok |-> TRUE, v |-> JStr(Unquote(toks[i])), i |-> i + 1]
     ELSE IF toks[i] = "null" THEN [ok |-> TRUE, v |-> JNull, i |-> i + 1]
     ELSE ParseFail

\* JSON.parse(text): [ok, v]; ok is FALSE where JSON.parse throws a SyntaxError
JSONparse(toks) ==
  LET r == ParseValue(toks, 1)
  IN IF r.ok /\ SkipWs(toks, r.i) > Len(toks)
       THEN [ok |-> TRUE, v |-> r.v]
       ELSE [ok |-> FALSE, v |-> JNull]

-----------------------------------------------------------------------------
(* The in-memory dictionary *)

Entry(source, language, translation) ==
  [source |-> source, language |-> language, translation |-> translation]

\* an entry as the JSON value JSON.stringify sees
EntryToJson(e) ==
  JObj(<<JPair("source", JStr(e.source)), JPair("language", JStr(e.language)),
         JPair("translation", JStr(e.translation))>>)

EntriesToJson(entries) == JArr([i \in 1..Len(entries) |-> EntryToJson(entries[i])])

IsEntryJson(v) ==
  /\ v.t = "obj"
  /\ \A k \in {"source", "language", "translation"} : HasField(v, k) /\ Field(v, k).t = "str"

IsEntryListJson(v) == v.t = "arr" /\ \A i \in 1..Len(v.a) : IsEntryJson(v.a[i])

EntriesFromJson(v) ==
  [i \in 1..Len(v.a) |->
     Entry(Field(v.a[i], "source").s, Field(v.a[i], "language").s,
           Field(v.a[i], "translation").s)]


\* SafeUtils.sanitizeValidate on a required string: an absent or empty value is rejected
RequiredString(v) == v # ""

\* SafeUtils.sanitizeValidate on a required array
RequiredArray(shape) == shape = "array"

\* a faulty variant of matches: the key compared with its letter case
matchesExactCase(e, source, targetLang) ==
  e.source = source /\ e.language = targetLang

\* the comparison of findIndex and filter: the identity key, letter case ignored
matches(e, source, targetLang) ==
  /\ toLowerCase(e.source) = toLowerCase(source)
  /\ toLowerCase(e.language) = toLowerCase(targetLang)

\* Array.prototype.findIndex, 1-based; 0 is JavaScript's -1
findIndex(entries, source, targetLang) ==
  LET S == { i \in 1..Len(entries) : matches(entries[i], source, targetLang) }
  IN IF S = {} THEN 0 ELSE CHOOSE i \in S : \A j \in S : i <= j

\* a faulty variant of overwrite: the update is dropped
overwriteKeepsOld(entries, idx, translation) == entries

\* this._dictionaryEntries[idx].translation = params.translation
overwrite(entries, idx, translation) ==
  [entries EXCEPT ![idx].translation = translation]

\* addOrUpdateDictionaryEntry: [entries, out]
addOrUpdateDictionaryEntry(entries, shape, source, targetLang, translation) ==
  IF ~(RequiredString(source) /\ RequiredString(targetLang) /\ RequiredString(translation))
    THEN [entries |-> entries, out |-> "ValidationError"]
  ELSE IF shape # "array"
    \* findIndex is not a function: a TypeError, caught and rethrown
    THEN [entries |-> entries, out |-> "Error"]
  ELSE LET idx == findIndex(entries, source, targetLang)
       IN IF idx # 0
            THEN [entries |-> overwrite(entries, idx, translation), out |-> "Updated"]
            ELSE [entries |-> Append(entries, Entry(source, targetLang, translation)),
                  out |-> "Added"]

\* a faulty variant of removeMatching: the key compared with its letter case
removeExactCase(entries, source, targetLang) ==
  SelectSeq(entries, LAMBDA e : ~matchesExactCase(e, source, targetLang))

\* this._dictionaryEntries.filter((e) => !(...))
removeMatching(entries, source, targetLang) ==
  SelectSeq(entries, LAMBDA e : ~matches(e, source, targetLang))

\* deleteDictionaryEntry: [entries, out]
deleteDictionaryEntry(entries, shape, source, targetLang) ==
  IF ~(RequiredString(source) /\ RequiredString(targetLang))
    THEN [entries |-> entries, out |-> "ValidationError"]
  ELSE IF shape # "array"
    THEN [entries |-> entries, out |-> "Error"]
  ELSE LET before == Len(entries)
           kept == removeMatching(entries, source, targetLang)
       IN [entries |-> kept,
           out |-> IF Len(kept) < before THEN "Deleted" ELSE "NoEntryFound"]

\* what a GetObject of the object and the read of its stream end in
\* fault: "none", "fetch" (the request fails), "stream" (the body's stream fails)
GetObject(obj, fault) ==
  IF fault = "fetch" THEN [err |-> "FetchError", body |-> <<>>]
  ELSE IF ~obj.exists THEN [err |-> "NoSuchKey", body |-> <<>>]
  ELSE IF fault = "stream" THEN [err |-> "StreamError", body |-> <<>>]
  ELSE [err |-> "", body |-> obj.body]

\* a faulty variant of isMissingFile: a missing key is an error like any other
isMissingFileNever(err) == FALSE

\* err.name === "NoSuchKey" || err.message.includes("The specified key does not exist")
isMissingFile(err) == err = "NoSuchKey"

\* a faulty variant of loadCustomDictionaryJson: the loaded entries are appended
loadAppends(entries, shape, obj, fault) ==
  LET got == GetObject(obj, fault)
      parsed == JSONparse(got.body)
      err == IF got.err # "" THEN got.err
             ELSE IF ~parsed.ok THEN "SyntaxError" ELSE ""
  IN IF err = ""
       THEN IF IsEntryListJson(parsed.v)
              THEN [entries |-> entries \o EntriesFromJson(parsed.v), shape |-> "array",
                    out |-> "Ok"]
              ELSE [entries |-> <<>>, shape |-> "other", out |-> "Ok"]
     ELSE IF isMissingFile(err)
       THEN [entries |-> <<>>, shape |-> "array", out |-> "Ok"]
     ELSE [entries |-> entries, shape |-> shape, out |-> "Error"]

\* loadCustomDictionaryJson: [entries, shape, out]
loadCustomDictionaryJson(entries, shape, obj, fault) ==
  LET got == GetObject(obj, fault)
      parsed == JSONparse(got.body)
      err == IF got.err # "" THEN got.err
             ELSE IF ~parsed.ok THEN "SyntaxError" ELSE ""
  IN IF err = ""
       THEN IF IsEntryListJson(parsed.v)
              THEN [entries |-> EntriesFromJson(parsed.v), shape |-> "array", out |-> "Ok"]
              ELSE [entries |-> <<>>, shape |-> "other", out |-> "Ok"]
     ELSE IF isMissingFile(err)
       THEN [entries |-> <<>>, shape |-> "array", out |-> "Ok"]
     ELSE [entries |-> entries, shape |-> shape, out |-> "Error"]

\* a faulty variant of saveCustomDictionaryJson: a failed upload empties the list
saveClearsOnFault(entries, shape, obj, fault) ==
  IF ~RequiredArray(shape)
    THEN [entries |-> entries, obj |-> obj, out |-> "ValidationError"]
  ELSE IF fault = "put"
    THEN [entries |-> <<>>, obj |-> obj, out |-> "Error"]
  ELSE [entries |-> entries,
        obj |-> [exists |-> TRUE, body |-> JSONstringify(EntriesToJson(entries))],
        out |-> "Ok"]

\* saveCustomDictionaryJson: [entries, obj, out]; fault: "none" or "put"
saveCustomDictionaryJson(entries, shape, obj, fault) ==
  IF ~RequiredArray(shape)
    THEN [entries |-> entries, obj |-> obj, out |-> "ValidationError"]
  ELSE IF fault = "put"
    THEN [entries |-> entries, obj |-> obj, out |-> "Error"]
  ELSE [entries |-> entries,
        obj |-> [exists |-> TRUE, body |-> JSONstringify(EntriesToJson(entries))],
        out |-> "Ok"]

\* a faulty variant of translateText: a request that fails is sent once more
translateTextRetries(text, targetLang, failed) ==
  IF ~RequiredString(text) THEN [out |-> "ValidationError", text |-> "", sent |-> 0]
  ELSE [out |-> "Ok", sent |-> IF failed THEN 2 ELSE 1,
        text |-> TranslatedText(text, IF targetLang = "" THEN defaultTargetLanguage
                                      ELSE targetLang)]

\* translateText: [out, text, sent]; failed says whether translate.send rejects;
\* sent counts the requests sent; targetLang "" is an argument left out
translateText(text, targetLang, failed) ==
  IF ~RequiredString(text) THEN [out |-> "ValidationError", text |-> "", sent |-> 0]
  ELSE IF failed THEN [out |-> "Error", text |-> "", sent |-> 1]
  ELSE [out |-> "Ok", sent |-> 1,
        text |-> TranslatedText(text, IF targetLang = "" THEN defaultTargetLanguage
                                      ELSE targetLang)]

RECURSIVE autoTranslateFrom(_, _, _)

\* the loop of autoTranslateMissing from entry i on; fails: the entries whose request fails
autoTranslateFrom(entries, i, fails) ==
  IF i > Len(entries) THEN entries
  ELSE LET entry == entries[i]
       IN IF trim(entry.translation) = "" /\ trim(entry.source) # ""
            THEN LET r == translateText(entry.source,
                                        IF entry.language # "" THEN entry.language
                                        ELSE defaultTargetLanguage,
                                        i \in fails)
                 IN autoTranslateFrom(
                      IF r.out = "Ok" THEN [entries EXCEPT ![i].translation = r.text]
                      ELSE entries, i + 1, fails)
            ELSE autoTranslateFrom(entries, i + 1, fails)

\* autoTranslateMissing: [entries, out]
autoTranslateMissing(entries, shape, fails) ==
  IF shape # "array"
    \* for...of over a value that is not iterable: a TypeError nothing catches
    THEN [entries |-> entries, out |-> "TypeError"]
    ELSE [entries |-> autoTranslateFrom(entries, 1, fails), out |-> "Ok"]

\* the entries autoTranslateMissing sends a request for
Missing(entries) ==
  { i \in 1..Len(entries) : trim(entries[i].translation) = "" /\ trim(entries[i].source) # "" }

\* Array.isArray(parsed) ? parsed : Array.isArray(parsed.translations) ? parsed.translations : []
\* threw says whether the expression throws (a property read on null)
itemsOfParsed(v) ==
  IF v.t = "arr" THEN [threw |-> FALSE, items |-> v.a]
  ELSE IF v.t = "null" THEN [threw |-> TRUE, items |-> <<>>]
  ELSE IF HasField(v, "translations") /\ Field(v, "translations").t = "arr"
    THEN [threw |-> FALSE, items |-> Field(v, "translations").a]
  ELSE [threw |-> FALSE, items |-> <<>>]

lineItems(rawText) ==
  LET lines == splitLines(rawText) IN [k \in 1..Len(lines) |-> JStr(lines[k])]

\* a faulty variant of parseItems: an empty array is kept, the lines are not tried
parseItemsNoFallThrough(rawText) ==
  LET parsed == JSONparse(rawText)
  IN IF ~parsed.ok \/ itemsOfParsed(parsed.v).threw
       THEN lineItems(rawText)
       ELSE itemsOfParsed(parsed.v).items

\* the try/catch that turns rawText into items: JSON first, lines when that throws
parseItems(rawText) ==
  LET parsed == JSONparse(rawText)
  IN IF ~parsed.ok \/ itemsOfParsed(parsed.v).threw
          \/ Len(itemsOfParsed(parsed.v).items) = 0
       THEN lineItems(rawText)
       ELSE itemsOfParsed(parsed.v).items

\* a || b on values that are strings or undefined ("" stands for both falsy values)
FieldText(entry, k) ==
  IF HasField(entry, k) /\ Field(entry, k).t = "str" THEN Field(entry, k).s ELSE ""

\* a faulty variant of textOf: the fields are read of a string as well (and are not there)
textOfFieldsOnly(entry) ==
  IF FieldText(entry, "Text") # "" THEN FieldText(entry, "Text")
  ELSE IF FieldText(entry, "text") # "" THEN FieldText(entry, "text")
  ELSE FieldText(entry, "source")

\* typeof entry === "string" ? entry : entry?.Text || entry?.text || entry?.source
\* ("" stands for every falsy outcome; the fields of the items of the model hold strings)
textOf(entry) ==
  IF entry.t = "str" THEN entry.s
  ELSE IF FieldText(entry, "Text") # "" THEN FieldText(entry, "Text")
  ELSE IF FieldText(entry, "text") # "" THEN FieldText(entry, "text")
  ELSE FieldText(entry, "source")

\* this.customDictionaryName, as the constructor defaults it
customDictionaryName == "my-translate-overrides"

\* new TranslateTextCommand({...}): TerminologyNames <<>> is the property left out
TranslateTextCommand(Text, TargetLanguageCode, TerminologyNames) ==
  [Text |-> Text, SourceLanguageCode |-> "en", TargetLanguageCode |-> TargetLanguageCode,
   TerminologyNames |-> TerminologyNames]

\* the command translateText builds: the custom terminology is named when one is set
translateTextCommand(text, targetLang) ==
  TranslateTextCommand(text, targetLang,
                       IF customDictionaryName # "" THEN <<customDictionaryName>> ELSE <<>>)

\* the command the manual loop builds for a unit and a language
manualCommand(text, lang) == TranslateTextCommand(text, lang, <<>>)

\* a request sent to a service: ok says whether it was answered, res with what
Req(cmd, text, lang, ok, res) ==
  [cmd |-> cmd, text |-> text, lang |-> lang, ok |-> ok, res |-> res]

\* a faulty variant of resultOf: a failed request leaves the original text
resultKeepsOriginal(text, lang, failed) ==
  IF failed THEN JStr(text) ELSE JStr(TranslatedText(text, lang))

\* resultsPerLang[lang] after the request: the translated text, or null in the catch
resultOf(text, lang, failed) ==
  IF failed THEN JNull ELSE JStr(TranslatedText(text, lang))

RECURSIVE spread(_, _, _)

\* { ...pairs, ...results } from the k-th pair of results on
spread(pairs, results, k) ==
  IF k > Len(results) THEN pairs
  ELSE spread(ObjSet(pairs, results[k].s, results[k].a[1]), results, k + 1)

\* { original: text, ...resultsPerLang }
recordOf(text, resultsPerLang) ==
  JObj(spread(<<JPair("original", JStr(text))>>, resultsPerLang, 1))

\* a faulty variant of manualFallback: the manual loop whatever the role
roleIsIgnored(role) == TRUE

\* if (!this.iamRoleArn)
manualFallback(role) == role = ""

-----------------------------------------------------------------------------
(* The terminology file: CSV export and import *)

\* this.csvKey, as the constructor defaults it
csvKey == "costume_terminology.csv"

\* the source language of every translation and the first column of the CSV
sourceLangCode == "en"

\* SafeUtils.sanitizeValidate, { type: "string", required: false }: the argument, given as
\* a JSON value, is a string
OptionalString(v) == v.t = "str"

\* a key of the bucket that holds no object
NoCsvObject == [exists |-> FALSE, body |-> <<>>]

\* a request to the storage or the translation service, and whether it was answered
CsvReq(cmd, key, body, opt, ok) ==
  [cmd |-> cmd, key |-> key, body |-> body, opt |-> opt, ok |-> ok]

\* a cell of the CSV: json2csv quotes a string; no value gives an empty cell
cellOf(row, field) ==
  IF HasField(row, field) /\ Field(row, field).t = "str"
    THEN Quote(Field(row, field).s) ELSE ""

RECURSIVE csvLines(_, _, _)

\* the data lines of the CSV from the k-th row on, each after a line break
csvLines(rows, fields, k) ==
  IF k > Len(rows) THEN <<>>
  ELSE <<"\n", cellOf(rows[k], fields[1]), ",", cellOf(rows[k], fields[2])>>
         \o csvLines(rows, fields, k + 1)

\* json2csv's parse(rows, { fields, quote: '"' }): the header, then a line per row
parse(rows, fields) ==
  <<Quote(fields[1]), ",", Quote(fields[2])>> \o csvLines(rows, fields, 1)

\* dictionaryEntries.filter(language matches).map(e => ({ [sourceLangCode]: e.source,
\* [targetLangCode]: e.translation })): the second key replaces the first when equal
rowsOf(entries, targetLangCode) ==
  LET kept == SelectSeq(entries, LAMBDA e : toLowerCase(e.language) = targetLangCode)
  IN [k \in 1..Len(kept) |->
        JObj(ObjSet(<<JPair(sourceLangCode, JStr(kept[k].source))>>,
                    targetLangCode, JStr(kept[k].translation)))]

\* the value of a property that an object read from a file does not have
undefined == "<undefined>"

\* e.language.toLowerCase() throws a TypeError on an entry that has no language
filterThrows(entries) == \E i \in 1..Len(entries) : entries[i].language = undefined

\* a faulty variant of convertJsonToAwsCsvAndUpload: the upload comes before the
\* validation of the argument
convertUploadsBeforeValidation(entries, shape, obj, targetLang, fault) ==
  LET targetLangCode == IF targetLang.t = "str" THEN trim(toLowerCase(targetLang.s)) ELSE ""
      csv == parse(rowsOf(entries, targetLangCode), <<sourceLangCode, targetLangCode>>)
      put == CsvReq("PutObject", csvKey, csv, "text/csv", fault = "none")
  IN IF filterThrows(entries) THEN [out |-> "TypeError", reqs |-> <<>>, obj |-> obj]
     ELSE IF fault # "none" THEN [out |-> "Error", reqs |-> <<put>>, obj |-> obj]
     ELSE IF ~(OptionalString(targetLang) /\ RequiredArray(shape))
       THEN [out |-> "ValidationError", reqs |-> <<put>>,
             obj |-> [exists |-> TRUE, body |-> csv]]
     ELSE [out |-> "Ok", reqs |-> <<put>>, obj |-> [exists |-> TRUE, body |-> csv]]

\* convertJsonToAwsCsvAndUpload: [out, reqs, obj]; fault: "none", "put"; the filter
\* runs before the try block, so what it throws reaches the caller as it is
convertJsonToAwsCsvAndUpload(entries, shape, obj, targetLang, fault) ==
  IF ~(OptionalString(targetLang) /\ RequiredArray(shape))
    THEN [out |-> "ValidationError", reqs |-> <<>>, obj |-> obj]
  ELSE IF filterThrows(entries)
    THEN [out |-> "TypeError", reqs |-> <<>>, obj |-> obj]
  ELSE LET targetLangCode == trim(toLowerCase(targetLang.s))
           csv == parse(rowsOf(entries, targetLangCode), <<sourceLangCode, targetLangCode>>)
           put == CsvReq("PutObject", csvKey, csv, "text/csv", fault = "none")
       IN IF fault = "none"
            THEN [out |-> "Ok", reqs |-> <<put>>, obj |-> [exists |-> TRUE, body |-> csv]]
            ELSE [out |-> "Error", reqs |-> <<put>>, obj |-> obj]

\* a faulty variant of importDictionaryToAwsTranslate: a missing file is imported as an
\* empty one
importTreatsMissingAsEmpty(obj, targetLang, fault, importFault) ==
  IF ~OptionalString(targetLang)
    THEN [out |-> "ValidationError", reqs |-> <<>>]
  ELSE LET got == GetObject(obj, fault)
           get == CsvReq("GetObject", csvKey, <<>>, "", got.err \in {"", "NoSuchKey"})
           imp == CsvReq("ImportTerminology", customDictionaryName, got.body, "OVERWRITE",
                         ~importFault)
       IN IF got.err \notin {"", "NoSuchKey"} THEN [out |-> "Error", reqs |-> <<get>>]
          ELSE [out |-> IF importFault THEN "Error" ELSE "Ok", reqs |-> <<get, imp>>]

\* a faulty variant of importDictionaryToAwsTranslate: the file is looked for under
\* another key than the one the export writes
importReadsAnotherKey(obj, targetLang, fault, importFault) ==
  IF ~OptionalString(targetLang)
    THEN [out |-> "ValidationError", reqs |-> <<>>]
  ELSE LET got == GetObject(NoCsvObject, fault)
           get == CsvReq("GetObject", "output/" \o csvKey, <<>>, "", got.err = "")
           imp == CsvReq("ImportTerminology", customDictionaryName, got.body, "OVERWRITE",
                         ~importFault)
       IN IF got.err # "" THEN [out |-> "Error", reqs |-> <<get>>]
          ELSE [out |-> IF importFault THEN "Error" ELSE "Ok", reqs |-> <<get, imp>>]

\* importDictionaryToAwsTranslate: [out, reqs]; fault: "none", "fetch", "stream";
\* importFault says whether the translation service rejects the import
importDictionaryToAwsTranslate(obj, targetLang, fault, importFault) ==
  IF ~OptionalString(targetLang)
    THEN [out |-> "ValidationError", reqs |-> <<>>]
  ELSE LET got == GetObject(obj, fault)
           get == CsvReq("GetObject", csvKey, <<>>, "", got.err = "")
           imp == CsvReq("ImportTerminology", customDictionaryName, got.body, "OVERWRITE",
                         ~importFault)
       IN IF got.err # "" THEN [out |-> "Error", reqs |-> <<get>>]
          ELSE [out |-> IF importFault THEN "Error" ELSE "Ok", reqs |-> <<get, imp>>]

\* no call of these operations made yet
NoOp ==
  [op |-> "none", arg |-> JNull, lang |-> "", fault |-> "none", out |-> "", ret |-> "",
   reqs |-> <<>>,
   entries0 |-> <<>>, shape0 |-> "array", obj0 |-> [exists |-> FALSE, body |-> <<>>]]

-----------------------------------------------------------------------------
(* The state machine *)

NoObject == [exists |-> FALSE, body |-> <<>>]

\* what the bucket may hold at jsonKey before the first save
CorruptText == <<"[", "{", "\"source\"">>
ObjectText == <<"{", "\"translations\"", ":", "[", "\"a\"", "]", "}">>

InitialObjects ==
  { NoObject, [exists |-> TRUE, body |-> CorruptText], [exists |-> TRUE, body |-> ObjectText] }

NoCall ==
  [op |-> "none", source |-> "", lang |-> "", tr |-> "", fault |-> "none", fails |-> {},
   out |-> "", changed |-> FALSE, n0 |-> 0, after |-> "other"]

\* the record of a call, after the call recorded in `prev`
Call(prev, op, source, lang, tr, fault, fails, out, changed, n0) ==
  [NoCall EXCEPT
   !.op = op, !.source = source, !.lang = lang, !.tr = tr, !.fault = fault, !.fails = fails,
   !.out = out, !.changed = changed, !.n0 = n0,
   \* "add": this call follows a completed addOrUpdateDictionaryEntry with the same
   \* source and language (and, when this call is one too, another translation);
   \* "add-delete": it follows a deleteDictionaryEntry that followed such a call
   !.after = IF prev.source = source /\ prev.lang = lang /\ source # ""
               THEN IF prev.op = "add" /\ prev.out \in {"Added", "Updated"}
                       /\ (op = "add" => prev.tr # tr)
                      THEN "add"
                    ELSE IF prev.op = "delete" /\ op = "delete" /\ prev.after = "add"
                      THEN "add-delete"
                    ELSE "other"
               ELSE "other"]

\* no call of startBulkTranslation in progress
Idle ==
  [pc |-> "idle", inputS3Uri |-> "", targetLangs |-> <<>>, rawText |-> <<>>, items |-> <<>>,
   i |-> 0, j |-> 0, resultsPerLang |-> <<>>, translated |-> <<>>,
   reqs |-> <<>>, cmds |-> <<>>, inflight |-> {}, failed |-> {}, body |-> <<>>,
   out |-> "", ret |-> ""]

\* no call suspended at an await; ids names the objects of this._dictionaryEntries and
\* heap holds what each object holds; arr is the array a for...of loop iterates once it
\* is no longer this._dictionaryEntries; before, wasTouched, rop and rpos are history
NoPending ==
  [op |-> "none", ids |-> <<>>, heap |-> <<>>, arr |-> <<>>, shared |-> TRUE, k |-> 0,
   held |-> [obj |-> NoObject, out |-> "", entries |-> <<>>],
   touched |-> FALSE, resumed |-> FALSE, n |-> 0,
   before |-> <<>>, wasTouched |-> FALSE, rop |-> "none", rpos |-> 0, out |-> ""]

Init ==
  /\ iamRoleArn = ""
  /\ dictionaryEntries = <<>>
  /\ dictShape = "array"
  /\ jsonObject \in InitialObjects
  /\ saved = [valid |-> FALSE, entries |-> <<>>]
  /\ last = NoCall
  /\ bulk = Idle
  /\ csvObject = NoObject
  /\ opCall = NoOp
  /\ pending = NoPending

Load ==
  \E fault \in {"none", "fetch", "stream"} :
    LET r == loadCustomDictionaryJson(dictionaryEntries, dictShape, jsonObject, fault)
    IN /\ dictionaryEntries' = r.entries
       /\ dictShape' = r.shape
       /\ last' = Call(last, "load", "", "", "", fault, {}, r.out,
                       r.entries # dictionaryEntries \/ r.shape # dictShape,
                       Len(dictionaryEntries))
       /\ UNCHANGED <<iamRoleArn, jsonObject, saved, bulk, csvObject, opCall, pending>>

AddOrUpdate ==
  \E k \in AddArgs :
    LET r == addOrUpdateDictionaryEntry(dictionaryEntries, dictShape, k[1], k[2], k[3])
    IN /\ Len(r.entries) <= MaxEntries
       /\ dictionaryEntries' = r.entries
       /\ last' = Call(last, "add", k[1], k[2], k[3], "none", {}, r.out,
                       r.entries # dictionaryEntries, Len(dictionaryEntries))
       /\ UNCHANGED <<iamRoleArn, dictShape, jsonObject, saved, bulk, csvObject, opCall, pending>>

Delete ==
  \E k \in ArgPairs :
    LET r == deleteDictionaryEntry(dictionaryEntries, dictShape, k[1], k[2])
    IN /\ dictionaryEntries' = r.entries
       /\ last' = Call(last, "delete", k[1], k[2], "", "none", {}, r.out,
                       r.entries # dictionaryEntries, Len(dictionaryEntries))
       /\ UNCHANGED <<iamRoleArn, dictShape, jsonObject, saved, bulk, csvObject, opCall, pending>>

Save ==
  \E fault \in {"none", "put"} :
    LET r == saveCustomDictionaryJson(dictionaryEntries, dictShape, jsonObject, fault)
    IN /\ dictionaryEntries' = r.entries
       /\ jsonObject' = r.obj
       /\ saved' = IF r.out = "Ok" THEN [valid |-> TRUE, entries |-> dictionaryEntries]
                   ELSE saved
       /\ last' = Call(last, "save", "", "", "", fault, {}, r.out,
                       r.entries # dictionaryEntries, Len(dictionaryEntries))
       /\ UNCHANGED <<iamRoleArn, dictShape, bulk, csvObject, opCall, pending>>

AutoTranslate ==
  \E fails \in SUBSET Missing(dictionaryEntries) :
    LET r == autoTranslateMissing(dictionaryEntries, dictShape, fails)
    IN /\ dictionaryEntries' = r.entries
       /\ last' = Call(last, "auto", "", "", "", "none", fails, r.out,
                       r.entries # dictionaryEntries, Len(dictionaryEntries))
       /\ UNCHANGED <<iamRoleArn, dictShape, jsonObject, saved, bulk, csvObject, opCall, pending>>

Next == Load \/ AddOrUpdate \/ Delete \/ Save \/ AutoTranslate

Spec == Init /\ [][Next]_vars

-----------------------------------------------------------------------------
(* Bulk translation: one call of startBulkTranslation, a step per awaited request *)

Roles == {"", "arn:aws:iam::1:role/translate"}

JobIds == {"job-1", "job-2"}

LangLists == UNION { [1..n -> LangTags] : n \in 0..MaxLangs }

InputObjects == { NoObject } \cup { [exists |-> TRUE, body |-> Texts[n]] : n \in 1..Len(Texts) }

InitBulk ==
  /\ iamRoleArn \in Roles
  /\ dictionaryEntries = <<>>
  /\ dictShape = "array"
  /\ jsonObject = NoObject
  /\ saved = [valid |-> FALSE, entries |-> <<>>]
  /\ last = NoCall
  /\ bulk = Idle
  /\ csvObject = NoObject
  /\ opCall = NoOp
  /\ pending = NoPending

RECURSIVE advance(_)

\* the loops from position (i, j) up to the next awaited translate request, or to their end
advance(b) ==
  IF b.i > Len(b.items) THEN [b EXCEPT !.pc = "upload"]
  ELSE IF textOf(b.items[b.i]) = ""
    THEN advance([b EXCEPT !.i = @ + 1, !.j = 1, !.resultsPerLang = <<>>])
  ELSE IF b.j > Len(b.targetLangs)
    THEN advance([b EXCEPT !.i = @ + 1, !.j = 1, !.resultsPerLang = <<>>,
                           !.translated =
                              Append(@, recordOf(textOf(b.items[b.i]), b.resultsPerLang))])
  ELSE [b EXCEPT !.pc = "loop"]

\* the call up to its first await: validation and the choice of the branch
Start ==
  /\ bulk.pc = "idle"
  /\ \E inputS3Uri \in {"s3://bucket/in.json", ""}, targetLangs \in LangLists :
       bulk' = IF ~RequiredString(inputS3Uri)
                 THEN [Idle EXCEPT !.pc = "done", !.out = "ValidationError",
                                   !.inputS3Uri = inputS3Uri, !.targetLangs = targetLangs]
                 ELSE [Idle EXCEPT !.pc = IF manualFallback(iamRoleArn) THEN "download"
                                          ELSE "job",
                                   !.inputS3Uri = inputS3Uri, !.targetLangs = targetLangs]
  /\ UNCHANGED <<iamRoleArn, dictionaryEntries, dictShape, jsonObject, saved, last,
               csvObject, opCall, pending>>

\* the download of the input, its parsing, and the loop up to the first translate request
Download ==
  /\ bulk.pc = "download"
  /\ \E input \in InputObjects, fault \in {"none", "fetch", "stream"} :
       LET got == GetObject(input, fault)
           get == Req("GetObject", "", "", got.err = "", "")
       IN bulk' = IF got.err # ""
                    THEN [bulk EXCEPT !.pc = "done", !.out = "Error", !.reqs = <<get>>]
                    ELSE advance([bulk EXCEPT !.rawText = got.body,
                                              !.items = parseItems(got.body),
                                              !.i = 1, !.j = 1, !.reqs = <<get>>])
  /\ UNCHANGED <<iamRoleArn, dictionaryEntries, dictShape, jsonObject, saved, last,
               csvObject, opCall, pending>>

\* a faulty variant of Send: the requests for all the languages of the unit that are
\* left are sent at once
SendAllLanguages ==
  /\ bulk.pc = "loop"
  /\ bulk' = [bulk EXCEPT !.pc = "await",
                          !.inflight = @ \cup { <<bulk.i, j>> : j \in bulk.j..Len(bulk.targetLangs) }]
  /\ UNCHANGED <<iamRoleArn, dictionaryEntries, dictShape, jsonObject, saved, last,
               csvObject, opCall, pending>>

\* this.translate.send(new TranslateTextCommand(...)) for the unit and the language the
\* loops are at: the request is out and the call waits for it
Send ==
  /\ bulk.pc = "loop"
  /\ bulk' = [bulk EXCEPT !.pc = "await", !.inflight = @ \cup {<<bulk.i, bulk.j>>}]
  /\ UNCHANGED <<iamRoleArn, dictionaryEntries, dictShape, jsonObject, saved, last,
               csvObject, opCall, pending>>

\* the request awaited is answered or fails, and the loops run up to the next request
Translate ==
  /\ bulk.pc = "await"
  /\ \E fails \in BOOLEAN :
       LET text == textOf(bulk.items[bulk.i])
           lang == bulk.targetLangs[bulk.j]
           res == resultOf(text, lang, fails)
       IN bulk' = advance([bulk EXCEPT
                     !.resultsPerLang = ObjSet(@, lang, res),
                     !.reqs = Append(@, Req("TranslateText", text, lang, ~fails,
                                            IF fails THEN "" ELSE TranslatedText(text, lang))),
                     !.cmds = Append(@, manualCommand(text, lang)),
                     !.inflight = @ \ {<<bulk.i, bulk.j>>},
                     !.failed = IF fails THEN @ \cup {<<bulk.i, bulk.j>>} ELSE @,
                     !.j = @ + 1])
  /\ UNCHANGED <<iamRoleArn, dictionaryEntries, dictShape, jsonObject, saved, last,
               csvObject, opCall, pending>>

\* a faulty variant of Upload: a failed upload is not noticed
UploadIgnoresFault ==
  /\ bulk.pc = "upload"
  /\ \E fault \in {"none", "put"} :
       bulk' = [bulk EXCEPT !.pc = "done",
                            !.body = JSONstringify(JArr(bulk.translated)),
                            !.reqs = Append(@, Req("PutObject", "", "", fault = "none", "")),
                            !.out = "Ok",
                            !.ret = "manual-job-done"]
  /\ UNCHANGED <<iamRoleArn, dictionaryEntries, dictShape, jsonObject, saved, last,
               csvObject, opCall, pending>>

\* the upload of the output and the return of the sentinel
Upload ==
  /\ bulk.pc = "upload"
  /\ \E fault \in {"none", "put"} :
       LET body == JSONstringify(JArr(bulk.translated))
       IN bulk' = [bulk EXCEPT !.pc = "done",
                               !.body = body,
                               !.reqs = Append(@, Req("PutObject", "", "", fault = "none", "")),
                               !.out = IF fault = "none" THEN "Ok" ELSE "Error",
                               !.ret = IF fault = "none" THEN "manual-job-done" ELSE ""]
  /\ UNCHANGED <<iamRoleArn, dictionaryEntries, dictShape, jsonObject, saved, last,
               csvObject, opCall, pending>>

\* the batch job: one request, answered with a job id or failed
StartJob ==
  /\ bulk.pc = "job"
  /\ \E fault \in BOOLEAN, JobId \in JobIds :
       bulk' = [bulk EXCEPT !.pc = "done",
                            !.reqs = <<Req("StartTextTranslationJob", "", "", ~fault,
                                           IF fault THEN "" ELSE JobId)>>,
                            !.out = IF fault THEN "Error" ELSE "Ok",
                            !.ret = IF fault THEN "" ELSE JobId]
  /\ UNCHANGED <<iamRoleArn, dictionaryEntries, dictShape, jsonObject, saved, last,
               csvObject, opCall, pending>>

\* the caller takes the outcome of the call
Return ==
  /\ bulk.pc = "done"
  /\ bulk' = Idle
  /\ UNCHANGED <<iamRoleArn, dictionaryEntries, dictShape, jsonObject, saved, last,
               csvObject, opCall, pending>>

NextBulk == Start \/ Download \/ Send \/ Translate \/ Upload \/ StartJob \/ Return

SpecBulk == InitBulk /\ [][NextBulk]_vars

-----------------------------------------------------------------------------
(* The terminology file: the dictionary is given, the CSV object comes and goes *)

\* the entries the dictionaries of this part are made of, no two with one identity key
CsvEntries ==
  { Entry("a", "fr", "x"), Entry("b", "FR", " "), Entry("c", "de", "y"),
    Entry(" ", "fr", "x"), Entry("a", "en", "x") }

\* the dictionaries: lists without repetition of at most MaxDict of these entries
CsvDictionaries ==
  { d \in UNION { [1..n -> CsvEntries] : n \in 0..MaxDict } :
      \A i, j \in 1..Len(d) : i # j => d[i] # d[j] }

\* dictionaries as loadCustomDictionaryJson leaves them after a file with an entry that
\* has no language: JSON.parse's result is kept without a look at the entries
LoadedDictionaries ==
  { <<Entry("d", undefined, "x")>>,
    <<Entry("a", "fr", "x"), Entry("d", undefined, "x")>>,
    <<Entry("d", undefined, "x"), Entry("c", "de", "y")>> }

\* the targetLang arguments; the array is an argument that is not a string
CsvTargets == { JStr("fr"), JStr(" FR "), JStr("de"), JStr("en"), JArr(<<>>) }

\* a CSV object written by an earlier run
StaleCsv == [exists |-> TRUE, body |-> <<Quote("en"), ",", Quote("fr")>>]

InitCsv ==
  /\ iamRoleArn = ""
  /\ dictionaryEntries \in CsvDictionaries \cup LoadedDictionaries
  /\ dictShape = "array"
  /\ jsonObject = NoObject
  /\ saved = [valid |-> FALSE, entries |-> <<>>]
  /\ last = NoCall
  /\ bulk = Idle
  /\ csvObject \in {NoObject, StaleCsv}
  /\ opCall = NoOp
  /\ pending = NoPending

Convert ==
  \E targetLang \in CsvTargets, fault \in {"none", "put"} :
    LET r == convertJsonToAwsCsvAndUpload(dictionaryEntries, dictShape, csvObject,
                                          targetLang, fault)
    IN /\ csvObject' = r.obj
       /\ opCall' = [NoOp EXCEPT !.op = "convert", !.arg = targetLang, !.fault = fault,
                               !.out = r.out, !.reqs = r.reqs,
                               !.entries0 = dictionaryEntries, !.shape0 = dictShape,
                               !.obj0 = csvObject]
       /\ UNCHANGED <<iamRoleArn, dictionaryEntries, dictShape, jsonObject, saved, last, bulk,
            pending>>

Import ==
  \E targetLang \in CsvTargets, fault \in {"none", "fetch", "stream"}, importFault \in BOOLEAN :
    LET r == importDictionaryToAwsTranslate(csvObject, targetLang, fault, importFault)
    IN /\ opCall' = [NoOp EXCEPT !.op = "import", !.arg = targetLang, !.fault = fault,
                               !.out = r.out, !.reqs = r.reqs,
                               !.entries0 = dictionaryEntries, !.shape0 = dictShape,
                               !.obj0 = csvObject]
       /\ UNCHANGED <<iamRoleArn, dictionaryEntries, dictShape, jsonObject, saved, last, bulk,
                      csvObject, pending>>

NextCsv == Convert \/ Import

SpecCsv == InitCsv /\ [][NextCsv]_vars

-----------------------------------------------------------------------------
(* One call of an operation, from the states a manager can be in *)

\* the text and targetLang arguments of translateText; "" is a text validation rejects
\* and a targetLang left out
TranslateArgs == {"a", ""} \X {"fr", "de", ""}

InitCalls ==
  /\ iamRoleArn \in Roles
  /\ \/ dictionaryEntries \in CsvDictionaries /\ dictShape = "array"
     \/ dictionaryEntries = <<>> /\ dictShape = "other"
  /\ jsonObject = NoObject
  /\ saved = [valid |-> FALSE, entries |-> <<>>]
  /\ last = NoCall
  /\ bulk = Idle
  /\ csvObject \in {NoObject, StaleCsv}
  /\ opCall = NoOp
  /\ pending = NoPending

\* no operation has been called yet
NoCallYet == last = NoCall /\ bulk = Idle /\ opCall = NoOp

TranslateCall ==
  \E a \in TranslateArgs, failed \in BOOLEAN :
    LET r == translateText(a[1], a[2], failed)
        lang == IF a[2] = "" THEN defaultTargetLanguage ELSE a[2]
    IN /\ opCall' = [NoOp EXCEPT
                       !.op = "translate", !.arg = JStr(a[1]), !.lang = a[2],
                       !.fault = IF failed THEN "translate" ELSE "none",
                       !.out = r.out, !.ret = r.text,
                       !.reqs = [k \in 1..r.sent |->
                                   CsvReq("TranslateText", a[1], <<>>, lang,
                                          ~failed /\ k = 1)],
                       !.entries0 = dictionaryEntries, !.shape0 = dictShape,
                       !.obj0 = csvObject]
       /\ UNCHANGED <<iamRoleArn, dictionaryEntries, dictShape, jsonObject, saved, last, bulk,
                      csvObject, pending>>

NextCalls ==
  NoCallYet /\ (\/ TranslateCall
                \/ Start
                \/ AddOrUpdate
                \/ Delete
                \/ Save
                \/ Convert
                \/ Import)

SpecCalls == InitCalls /\ [][NextCalls]_vars

-----------------------------------------------------------------------------
(* Calls interleaved at their await points: one of loadCustomDictionaryJson,
   saveCustomDictionaryJson and autoTranslateMissing is suspended while
   addOrUpdateDictionaryEntry and deleteDictionaryEntry, which never await, run *)

MaxObjects == 5

\* the calls of addOrUpdateDictionaryEntry and deleteDictionaryEntry made while one
\* call is suspended
MaxDuring == 2

\* no call of loadCustomDictionaryJson, saveCustomDictionaryJson or
\* autoTranslateMissing has been made yet
NoneBegun == pending.op = "none" /\ pending.rop = "none" /\ pending.out = ""

AsyncDictionaries ==
  { <<>>,
    <<Entry("a", "fr", " ")>>,
    <<Entry("a", "fr", " "), Entry("b", "fr", "x")>>,
    <<Entry("a", "fr", ""), Entry("b", "de", " ")>> }

AsyncObjects ==
  { NoObject,
    [exists |-> TRUE, body |-> JSONstringify(EntriesToJson(<<Entry("c", "de", "y")>>))],
    [exists |-> TRUE, body |-> ObjectText] }

\* the objects of a list just made: one new object per entry
Fresh(entries) ==
  [NoPending EXCEPT !.ids = [i \in 1..Len(entries) |-> i], !.heap = entries]

InitAsync ==
  /\ iamRoleArn = ""
  /\ dictionaryEntries \in AsyncDictionaries
  /\ dictShape = "array"
  /\ jsonObject \in AsyncObjects
  /\ saved = [valid |-> FALSE, entries |-> <<>>]
  /\ last = NoCall
  /\ bulk = Idle
  /\ csvObject = NoObject
  /\ opCall = NoOp
  /\ pending = Fresh(dictionaryEntries)

\* this._dictionaryEntries as the objects it holds
ListOf(ids, heap) == [i \in 1..Len(ids) |-> heap[ids[i]]]

\* the array the for...of loop of autoTranslateMissing iterates
LoopArray(p) == IF p.shared THEN p.ids ELSE p.arr

\* !entry.translation?.trim() && entry.source?.trim()
isMissing(entry) == trim(entry.translation) = "" /\ trim(entry.source) # ""

RECURSIVE advanceAuto(_)

\* the loop of autoTranslateMissing from position k up to its next await, or to its end
advanceAuto(p) ==
  IF p.k > Len(LoopArray(p)) THEN [p EXCEPT !.op = "none", !.out = "Ok"]
  ELSE IF isMissing(p.heap[LoopArray(p)[p.k]]) THEN p
  ELSE advanceAuto([p EXCEPT !.k = @ + 1])

\* what a call that ended leaves: the objects no loop refers to any more are dropped
Ended(p, entries) ==
  IF p.op = "none"
    THEN [p EXCEPT !.ids = [i \in 1..Len(entries) |-> i], !.heap = entries,
                   !.arr = <<>>, !.shared = TRUE, !.k = 0,
                   !.held = NoPending.held]
    ELSE p

\* a call begins and runs up to its first await
Begin(p) == [p EXCEPT !.touched = FALSE, !.resumed = FALSE, !.out = ""]

\* a suspended call resumes: what the list held before is kept as history
Resume(p, pos) ==
  [p EXCEPT !.before = ListOf(p.ids, p.heap), !.wasTouched = p.touched, !.rop = p.op,
            !.rpos = pos, !.touched = FALSE, !.resumed = TRUE]

\* loadCustomDictionaryJson up to its await of the GetObject request
BeginLoad ==
  /\ NoneBegun
  /\ pending' = [Begin(pending) EXCEPT !.op = "load"]
  /\ UNCHANGED <<iamRoleArn, dictionaryEntries, dictShape, jsonObject, saved, last, bulk,
                 csvObject, opCall>>

\* loadCustomDictionaryJson from the answer on: the assignment, or the catch
EndLoad ==
  /\ pending.op = "load"
  /\ \E fault \in {"none", "fetch", "stream"} :
       LET r == loadCustomDictionaryJson(dictionaryEntries, dictShape, jsonObject, fault)
           p == [Resume(pending, 0) EXCEPT !.op = "none", !.out = r.out]
       IN /\ dictionaryEntries' = r.entries
          /\ dictShape' = r.shape
          /\ pending' = Ended(p, r.entries)
  /\ UNCHANGED <<iamRoleArn, jsonObject, saved, last, bulk, csvObject, opCall>>

\* saveCustomDictionaryJson up to its await of the PutObject request: the body is made
BeginSave ==
  /\ NoneBegun
  /\ \E fault \in {"none", "put"} :
       LET r == saveCustomDictionaryJson(dictionaryEntries, dictShape, jsonObject, fault)
       IN pending' = IF r.out = "ValidationError"
                       THEN [Begin(pending) EXCEPT !.out = r.out]
                       ELSE [Begin(pending) EXCEPT
                               !.op = "save",
                               !.held = [obj |-> r.obj, out |-> r.out,
                                         entries |-> dictionaryEntries]]
  /\ UNCHANGED <<iamRoleArn, dictionaryEntries, dictShape, jsonObject, saved, last, bulk,
                 csvObject, opCall>>

\* a faulty variant of EndSave: the list is set back to what was saved
EndSaveRestoresSnapshot ==
  /\ pending.op = "save"
  /\ jsonObject' = pending.held.obj
  /\ saved' = IF pending.held.out = "Ok"
                THEN [valid |-> TRUE, entries |-> pending.held.entries]
                ELSE saved
  /\ dictionaryEntries' = pending.held.entries
  /\ pending' = Ended([Resume(pending, 0) EXCEPT !.op = "none", !.out = pending.held.out],
                      pending.held.entries)
  /\ UNCHANGED <<iamRoleArn, dictShape, last, bulk, csvObject, opCall>>

\* saveCustomDictionaryJson from the answer on: a log entry and the return, or the catch
EndSave ==
  /\ pending.op = "save"
  /\ jsonObject' = pending.held.obj
  /\ saved' = IF pending.held.out = "Ok"
                THEN [valid |-> TRUE, entries |-> pending.held.entries]
                ELSE saved
  /\ pending' = Ended([Resume(pending, 0) EXCEPT !.op = "none", !.out = pending.held.out],
                      dictionaryEntries)
  /\ UNCHANGED <<iamRoleArn, dictionaryEntries, dictShape, last, bulk, csvObject, opCall>>

\* autoTranslateMissing up to its first await, or to its end when nothing is awaited
BeginAuto ==
  /\ NoneBegun
  /\ pending' = IF dictShape # "array"
                  THEN [Begin(pending) EXCEPT !.out = "TypeError"]
                  ELSE Ended(advanceAuto([Begin(pending) EXCEPT
                                            !.op = "auto", !.shared = TRUE, !.k = 1]),
                             dictionaryEntries)
  /\ UNCHANGED <<iamRoleArn, dictionaryEntries, dictShape, jsonObject, saved, last, bulk,
                 csvObject, opCall>>

\* the position in the list of the object a loop is at, 0 when the list does not hold it
PosOf(ids, id) ==
  IF \E i \in 1..Len(ids) : ids[i] = id
    THEN CHOOSE i \in 1..Len(ids) : ids[i] = id
    ELSE 0

\* autoTranslateMissing from the answer of translateText on, up to its next await
StepAuto ==
  /\ pending.op = "auto"
  /\ \E failed \in BOOLEAN :
       LET id == LoopArray(pending)[pending.k]
           entry == pending.heap[id]
           r == translateText(entry.source, entry.language, failed)
           heap == IF r.out = "Ok"
                     THEN [pending.heap EXCEPT ![id].translation = r.text]
                     ELSE pending.heap
           p == advanceAuto([Resume(pending, PosOf(pending.ids, id)) EXCEPT
                                !.heap = heap, !.k = @ + 1])
       IN /\ dictionaryEntries' = ListOf(pending.ids, heap)
          /\ pending' = Ended(p, dictionaryEntries')
  /\ UNCHANGED <<iamRoleArn, dictShape, jsonObject, saved, last, bulk, csvObject, opCall>>

\* addOrUpdateDictionaryEntry while a call is suspended: an update writes into the
\* object found, an addition pushes a new object onto the array
AddDuring ==
  /\ pending.op # "none"
  /\ pending.n < MaxDuring
  /\ \E a \in AddArgs :
       LET r == addOrUpdateDictionaryEntry(dictionaryEntries, dictShape, a[1], a[2], a[3])
           idx == findIndex(dictionaryEntries, a[1], a[2])
           new == Len(pending.heap) + 1
       IN /\ Len(r.entries) <= MaxEntries
          /\ r.out = "Added" => new <= MaxObjects
          /\ dictionaryEntries' = r.entries
          /\ last' = Call(last, "add", a[1], a[2], a[3], "none", {}, r.out,
                          r.entries # dictionaryEntries, Len(dictionaryEntries))
          /\ pending' =
               IF r.out = "Updated"
                 THEN [pending EXCEPT !.heap[pending.ids[idx]].translation = a[3],
                                      !.touched = TRUE, !.resumed = FALSE, !.n = @ + 1]
               ELSE IF r.out = "Added"
                 THEN [pending EXCEPT !.heap = Append(@, Entry(a[1], a[2], a[3])),
                                      !.ids = Append(@, new),
                                      !.touched = TRUE, !.resumed = FALSE, !.n = @ + 1]
               ELSE [pending EXCEPT !.resumed = FALSE, !.n = @ + 1]
  /\ UNCHANGED <<iamRoleArn, dictShape, jsonObject, saved, bulk, csvObject, opCall>>

\* deleteDictionaryEntry while a call is suspended: filter makes a new array of the
\* objects kept, and a loop that iterates the old array goes on with the old one
DeleteDuring ==
  /\ pending.op # "none"
  /\ pending.n < MaxDuring
  /\ \E a \in ArgPairs :
       LET r == deleteDictionaryEntry(dictionaryEntries, dictShape, a[1], a[2])
           kept == SelectSeq(pending.ids,
                             LAMBDA id : ~matches(pending.heap[id], a[1], a[2]))
       IN /\ dictionaryEntries' = r.entries
          /\ last' = Call(last, "delete", a[1], a[2], "", "none", {}, r.out,
                          r.entries # dictionaryEntries, Len(dictionaryEntries))
          /\ pending' =
               IF r.out \in {"Deleted", "NoEntryFound"}
                 THEN [pending EXCEPT !.ids = kept,
                                      !.arr = LoopArray(pending), !.shared = FALSE,
                                      !.touched = TRUE, !.resumed = FALSE, !.n = @ + 1]
                 ELSE [pending EXCEPT !.resumed = FALSE, !.n = @ + 1]
  /\ UNCHANGED <<iamRoleArn, dictShape, jsonObject, saved, bulk, csvObject, opCall>>

NextAsync ==
  BeginLoad \/ EndLoad \/ BeginSave \/ EndSave \/ BeginAuto \/ StepAuto
    \/ AddDuring \/ DeleteDuring

SpecAsync == InitAsync /\ [][NextAsync]_vars

-----------------------------------------------------------------------------
(* One call of any operation, run to its end, from sampled states *)

\* listBucketFiles: [out, reqs, ret]; ret spells the keys the listing returns
listBucketFiles(jsonObj, csvObj, fault) ==
  LET keys == (IF csvObj.exists THEN <<csvKey>> ELSE <<>>)
                \o (IF jsonObj.exists THEN <<"input/translations.json">> ELSE <<>>)
      list == CsvReq("ListObjectsV2", "", <<>>, "", ~fault)
  IN IF fault THEN [out |-> "Error", reqs |-> <<list>>, ret |-> ""]
     ELSE [out |-> "Ok", reqs |-> <<list>>, ret |-> Concat(keys)]

FrameDictionaries ==
  { <<>>,
    <<Entry("a", "fr", "x")>>,
    <<Entry("a", "fr", " "), Entry("b", "FR", "x")>> }

FrameObjects ==
  { NoObject,
    [exists |-> TRUE, body |-> JSONstringify(EntriesToJson(<<Entry("c", "de", "y")>>))] }

InitFrame ==
  /\ iamRoleArn \in Roles
  /\ dictionaryEntries \in FrameDictionaries
  /\ dictShape = "array"
  /\ jsonObject \in FrameObjects
  /\ saved = [valid |-> FALSE, entries |-> <<>>]
  /\ last = NoCall
  /\ bulk = Idle
  /\ csvObject = StaleCsv
  /\ opCall = NoOp
  /\ pending = NoPending

\* a faulty variant of ListFiles: the listing empties the list of entries
ListFilesClearsEntries ==
  \E fault \in BOOLEAN :
    LET r == listBucketFiles(jsonObject, csvObject, fault)
    IN /\ opCall' = [NoOp EXCEPT !.op = "list", !.fault = IF fault THEN "list" ELSE "none",
                               !.out = r.out, !.ret = r.ret, !.reqs = r.reqs,
                               !.entries0 = dictionaryEntries, !.shape0 = dictShape,
                               !.obj0 = csvObject]
       /\ dictionaryEntries' = <<>>
       /\ UNCHANGED <<iamRoleArn, dictShape, jsonObject, saved, last, bulk,
                      csvObject, pending>>

ListFiles ==
  \E fault \in BOOLEAN :
    LET r == listBucketFiles(jsonObject, csvObject, fault)
    IN /\ opCall' = [NoOp EXCEPT !.op = "list", !.fault = IF fault THEN "list" ELSE "none",
                               !.out = r.out, !.ret = r.ret, !.reqs = r.reqs,
                               !.entries0 = dictionaryEntries, !.shape0 = dictShape,
                               !.obj0 = csvObject]
       /\ UNCHANGED <<iamRoleArn, dictionaryEntries, dictShape, jsonObject, saved, last, bulk,
                      csvObject, pending>>

\* the call picked, and for startBulkTranslation the steps that follow its first
NextFrame ==
  \/ NoCallYet /\ (\/ TranslateCall
                   \/ Start
                   \/ Convert
                   \/ Import
                   \/ ListFiles
                   \/ Load
                   \/ AddOrUpdate
                   \/ Delete
                   \/ Save
                   \/ AutoTranslate)
  \/ Download
  \/ Send
  \/ Translate
  \/ Upload
  \/ StartJob

SpecFrame == InitFrame /\ [][NextFrame]_vars

-----------------------------------------------------------------------------
(* Claims about the dictionary *)

\* two entries with the same identity key: source and language, letter case ignored
SameIdentityKey(e, source, language) ==
  /\ toLowerCase(e.source) = toLowerCase(source)
  /\ toLowerCase(e.language) = toLowerCase(language)

EntriesOfKey(source, language) ==
  { i \in 1..Len(dictionaryEntries) : SameIdentityKey(dictionaryEntries[i], source, language) }

Completed(call) == call.out \in {"Ok", "Added", "Updated", "Deleted", "NoEntryFound"}

\* C1: in every state that load, add/update, delete, save and autoTranslateMissing can
\* reach, no two entries of the in-memory dictionary have the same identity key
\* (source, language), compared without regard to letter case as addOrUpdate does.
\* The same holds of the snapshot a save stored, which is what a load returns.
UniqueKeys(entries) ==
  \A i, j \in 1..Len(entries) :
    i # j => ~SameIdentityKey(entries[i], entries[j].source, entries[j].language)

C1_UniqueIdentityKey ==
  /\ UniqueKeys(dictionaryEntries)
  /\ saved.valid => UniqueKeys(saved.entries)

\* a call with another letter case than the stored entry updated it; two keys are held
C1_Witness ==
  /\ last.op = "add" /\ last.out = "Updated"
  /\ Len(dictionaryEntries) = 2
  /\ \E i \in EntriesOfKey(last.source, last.lang) : dictionaryEntries[i].source # last.source

\* C2: after addOrUpdate(source, language, t1) and then addOrUpdate(source, language, t2)
\* with t1 # t2, exactly one entry has that key and its translation is t2.
C2_SecondAddOverwrites ==
  (last.op = "add" /\ last.after = "add" /\ Completed(last)) =>
    /\ Cardinality(EntriesOfKey(last.source, last.lang)) = 1
    /\ \A i \in EntriesOfKey(last.source, last.lang) :
         dictionaryEntries[i].translation = last.tr

C2_Witness ==
  /\ last.op = "add" /\ last.after = "add" /\ last.out = "Updated"
  /\ Len(dictionaryEntries) = 2

\* C3: a delete that follows an addOrUpdate on the same (source, language) removes exactly
\* one entry, and a second delete on that key changes nothing and reports no entry found.
C3_DeleteAfterAdd ==
  /\ (last.op = "delete" /\ last.after = "add") =>
       /\ last.out = "Deleted"
       /\ Len(dictionaryEntries) = last.n0 - 1
       /\ EntriesOfKey(last.source, last.lang) = {}
  /\ (last.op = "delete" /\ last.after = "add-delete") =>
       /\ last.out = "NoEntryFound"
       /\ ~last.changed

\* the second delete, with another entry still held
C3_Witness ==
  /\ last.op = "delete" /\ last.after = "add-delete"
  /\ Len(dictionaryEntries) = 1

\* C4: a successful load after a successful save to the same key (nothing else writes the
\* key) leaves the in-memory list equal to the saved list, order and content.
C4_SaveLoadRoundTrip ==
  (last.op = "load" /\ last.out = "Ok" /\ saved.valid) =>
    /\ dictShape = "array"
    /\ dictionaryEntries = saved.entries

\* a load that brought back a saved two-entry list over a different in-memory list
C4_Witness ==
  /\ last.op = "load" /\ last.out = "Ok" /\ saved.valid
  /\ Len(saved.entries) = 2 /\ last.changed
  /\ \E i \in 1..2 : saved.entries[i].translation = " "

\* C5: a load when no object exists at jsonKey completes without an error and leaves the
\* in-memory dictionary empty, whatever it held.
C5_MissingKeyGivesEmpty ==
  (last.op = "load" /\ ~jsonObject.exists /\ last.fault # "fetch") =>
    /\ last.out = "Ok"
    /\ dictShape = "array"
    /\ dictionaryEntries = <<>>

\* the dictionary held entries before the load of the missing key
C5_Witness ==
  /\ last.op = "load" /\ ~jsonObject.exists /\ last.fault # "fetch"
  /\ last.n0 = 2 /\ last.changed

\* the stored object is there and is not the JSON text of an entry list
StoredIsNoEntryList ==
  /\ jsonObject.exists
  /\ LET p == JSONparse(jsonObject.body) IN ~p.ok \/ ~IsEntryListJson(p.v)

\* C6: a load that fails for a reason other than a missing key (a fetch fault, a stream
\* fault, stored content that is not a valid entry list) ends in an error and leaves the
\* in-memory dictionary as it was.
C6_FailedLoadKeepsDictionary ==
  (/\ last.op = "load"
   /\ \/ last.fault = "fetch"
      \/ jsonObject.exists /\ last.fault = "stream"
      \/ StoredIsNoEntryList) =>
    /\ last.out = "Error"
    /\ ~last.changed

\* C7: save leaves the in-memory dictionary as it was, whether the upload succeeds or
\* fails, and an upload fault ends the call in an error.
C7_SaveNeverMutates ==
  last.op = "save" =>
    /\ ~last.changed
    /\ last.fault = "put" => last.out \in {"Error", "ValidationError"}

\* a failed upload of a two-entry list
C7_Witness ==
  /\ last.op = "save" /\ last.fault = "put" /\ last.out = "Error"
  /\ Len(dictionaryEntries) = 2

-----------------------------------------------------------------------------
(* Claims about bulk translation *)

\* the items of the input that the loop keeps, by index and in order
RetainedIdx(items) ==
  SelectSeq([k \in 1..Len(items) |-> k], LAMBDA k : textOf(items[k]) # "")

\* the download of the call was answered and its body read
Downloaded ==
  /\ Len(bulk.reqs) >= 1
  /\ bulk.reqs[1].cmd = "GetObject"
  /\ bulk.reqs[1].ok

\* the last request of the call is the upload of the output
UploadSent == Len(bulk.reqs) >= 1 /\ bulk.reqs[Len(bulk.reqs)].cmd = "PutObject"

TranslateReqs == SelectSeq(bulk.reqs, LAMBDA r : r.cmd = "TranslateText")

\* the j-th requested language is not asked for again later in the list
LastAsk(langs, j) == \A k \in (j + 1)..Len(langs) : langs[k] # langs[j]

\* C8: in the manual fallback, once the download has succeeded the call reaches the upload
\* whatever translate requests failed, and when the upload succeeds too the call ends
\* without an error and the uploaded output holds one record per retained unit, in order,
\* in which each requested language holds the translated text when its request was
\* answered and null when it failed
C8_ManualBatchCompletes ==
  (iamRoleArn = "" /\ bulk.pc = "done" /\ Downloaded) =>
    /\ UploadSent
    /\ Len(TranslateReqs) = Len(RetainedIdx(bulk.items)) * Len(bulk.targetLangs)
    /\ bulk.reqs[Len(bulk.reqs)].ok =>
         LET output == JSONparse(bulk.body)
             idx == RetainedIdx(bulk.items)
             langs == bulk.targetLangs
         IN /\ bulk.out = "Ok"
            /\ output.ok
            /\ output.v.t = "arr"
            /\ Len(output.v.a) = Len(idx)
            /\ \A k \in 1..Len(idx) :
                 LET record == output.v.a[k]
                     text == textOf(bulk.items[idx[k]])
                 IN /\ record.t = "obj"
                    /\ (\A j \in 1..Len(langs) : langs[j] # "original")
                         => Field(record, "original") = JStr(text)
                    /\ \A j \in 1..Len(langs) :
                         LastAsk(langs, j) =>
                           /\ HasField(record, langs[j])
                           /\ Field(record, langs[j]) =
                                IF <<idx[k], j>> \in bulk.failed
                                  THEN JNull
                                  ELSE JStr(TranslatedText(text, langs[j]))

\* a manual call over two units and two languages that ended well although one translate
\* request of each unit failed
C8_Witness ==
  /\ iamRoleArn = ""
  /\ bulk.pc = "done"
  /\ bulk.out = "Ok"
  /\ bulk.rawText = Texts[1]
  /\ bulk.targetLangs = <<"fr", "de">>
  /\ bulk.failed = {<<1, 2>>, <<2, 1>>}

\* C9: with a service role configured a call sends exactly one start-batch-job request
\* and nothing else, and returns the job id the service issued; with no role configured
\* it never sends a start-batch-job request, and a call that ends well has run the whole
\* manual loop, has uploaded the output and returns "manual-job-done"
C9_BranchChosenOnce ==
  /\ iamRoleArn # "" =>
       /\ bulk.pc \in {"idle", "job", "done"}
       /\ bulk.pc = "job" => bulk.reqs = <<>>
       /\ (bulk.pc = "done" /\ bulk.out # "ValidationError") =>
            /\ Len(bulk.reqs) = 1
            /\ bulk.reqs[1].cmd = "StartTextTranslationJob"
            /\ bulk.out = "Ok" => (bulk.ret = bulk.reqs[1].res /\ bulk.ret \in JobIds)
  /\ iamRoleArn = "" =>
       /\ bulk.pc # "job"
       /\ \A k \in 1..Len(bulk.reqs) : bulk.reqs[k].cmd # "StartTextTranslationJob"
       /\ (bulk.pc = "done" /\ bulk.out = "Ok") =>
            /\ bulk.ret = "manual-job-done"
            /\ bulk.i = Len(bulk.items) + 1
            /\ Len(bulk.translated) = Len(RetainedIdx(bulk.items))
            /\ UploadSent

\* a call with a role configured that returned the job id of its one request
C9_Witness ==
  /\ iamRoleArn # ""
  /\ bulk.pc = "done"
  /\ bulk.ret = "job-2"
  /\ Len(bulk.reqs) = 1

\* the units the rules of preference give for a text
ExpectedUnits(rawText) ==
  LET parsed == JSONparse(rawText)
  IN IF parsed.ok /\ parsed.v.t = "arr" /\ Len(parsed.v.a) > 0
       THEN parsed.v.a
     ELSE IF /\ parsed.ok
             /\ parsed.v.t = "obj"
             /\ HasField(parsed.v, "translations")
             /\ Field(parsed.v, "translations").t = "arr"
             /\ Len(Field(parsed.v, "translations").a) > 0
       THEN Field(parsed.v, "translations").a
     ELSE lineItems(rawText)

\* C10: once the text is downloaded, the units of the manual fallback are the elements of
\* the text when it is a non-empty JSON array, else the elements of its translations field
\* when that is a non-empty array, else the non-blank lines of the text; and a call whose
\* download succeeded fails only at the upload
C10_ParsingPreference ==
  (iamRoleArn = "" /\ Downloaded) =>
    /\ bulk.pc \in {"loop", "await", "upload", "done"}
    /\ bulk.items = ExpectedUnits(bulk.rawText)
    /\ (bulk.pc = "done" /\ bulk.out # "Ok") => (UploadSent /\ ~bulk.reqs[Len(bulk.reqs)].ok)

\* the text { "translations": [] } gave its one line as the unit, and one output record
C10_Witness ==
  /\ bulk.pc = "done"
  /\ bulk.out = "Ok"
  /\ bulk.rawText = <<"{", Quote("translations"), ":", "[", "]", "}">>
  /\ Len(bulk.items) = 1
  /\ bulk.items[1].t = "str"
  /\ Len(bulk.translated) = 1

\* the text fell to the line-by-line rule: it is no JSON text with a non-empty array
ParsedAsLines(rawText) ==
  LET parsed == JSONparse(rawText)
  IN ~(parsed.ok /\ parsed.v.t = "arr" /\ Len(parsed.v.a) > 0)
     /\ ~(/\ parsed.ok
          /\ parsed.v.t = "obj"
          /\ HasField(parsed.v, "translations")
          /\ Field(parsed.v, "translations").t = "arr"
          /\ Len(Field(parsed.v, "translations").a) > 0)

\* the token at i starts a line break: \n, or \r right before \n
BreakAt(toks, i) ==
  \/ toks[i] = "\n"
  \/ toks[i] = "\r" /\ i < Len(toks) /\ toks[i + 1] = "\n"

\* the token at i belongs to a line break
InBreak(toks, i) ==
  \/ BreakAt(toks, i)
  \/ toks[i] = "\n" /\ i > 1 /\ toks[i - 1] = "\r"

\* the non-blank lines of a text, as the places <<first, last>> of their tokens
NonBlankLines(toks) ==
  { p \in (1..Len(toks)) \X (1..Len(toks)) :
      /\ p[1] <= p[2]
      /\ \A i \in p[1]..p[2] : ~InBreak(toks, i)
      /\ (p[1] = 1 \/ InBreak(toks, p[1] - 1))
      /\ (p[2] = Len(toks) \/ InBreak(toks, p[2] + 1))
      /\ \E i \in p[1]..p[2] : toks[i] \notin WhiteTokens }

\* C11: when the manual fallback reads the text line by line, its units are the lines
\* that hold more than white space, one unit per such line, in the order of the lines and
\* each with the whole content of its line, white space at its ends included
C11_LinesAreUnits ==
  (iamRoleArn = "" /\ Downloaded /\ ParsedAsLines(bulk.rawText)) =>
    LET lines == NonBlankLines(bulk.rawText)
    IN /\ Len(bulk.items) = Cardinality(lines)
       /\ \A p \in lines :
            LET k == Cardinality({ q \in lines : q[1] <= p[1] })
            IN bulk.items[k] = JStr(Concat(SubSeq(bulk.rawText, p[1], p[2])))

\* a text with blank lines, a \r\n break and a line with white space around its word:
\* one unit, the line as it stands
C11_Witness ==
  /\ bulk.pc = "done"
  /\ bulk.out = "Ok"
  /\ bulk.rawText = <<" ", "\n", " ", "a", " ", "\r", "\n", "\t">>
  /\ bulk.items = <<JStr(" a ")>>

\* the first of the fields Text, text, source of a unit that holds text
FirstTextField(unit) ==
  LET holds == { f \in {"Text", "text", "source"} :
                   HasField(unit, f) /\ Field(unit, f).t = "str" /\ Field(unit, f).s # "" }
  IN IF "Text" \in holds THEN "Text" ELSE IF "text" \in holds THEN "text" ELSE "source"

\* the unit yields no text
NoText(unit) ==
  IF unit.t = "str" THEN unit.s = ""
  ELSE unit.t # "obj" \/ FieldText(unit, FirstTextField(unit)) = ""

\* the translatable text of a unit that yields one
TextOfUnit(unit) ==
  IF unit.t = "str" THEN unit.s ELSE Field(unit, FirstTextField(unit)).s

\* C12: once the loop of the manual fallback is over, the translate requests sent are,
\* unit by unit, those for the text of each unit that yields one (the unit itself when a
\* string, else the first of Text, text, source that holds text); a unit that yields
\* none has no request and no record, and the call fails only if the upload does
C12_TextOfUnits ==
  (iamRoleArn = "" /\ Downloaded /\ bulk.pc \in {"upload", "done"}) =>
    LET kept == SelectSeq([k \in 1..Len(bulk.items) |-> k],
                          LAMBDA k : ~NoText(bulk.items[k]))
        n == Len(bulk.targetLangs)
    IN /\ Len(TranslateReqs) = Len(kept) * n
       /\ \A k \in 1..Len(kept) : \A j \in 1..n :
            TranslateReqs[(k - 1) * n + j].text = TextOfUnit(bulk.items[kept[k]])
       /\ Len(bulk.translated) = Len(kept)
       /\ \A k \in 1..Len(kept) :
            (\A j \in 1..n : bulk.targetLangs[j] # "original") =>
              Field(bulk.translated[k], "original") = JStr(TextOfUnit(bulk.items[kept[k]]))
       /\ (bulk.pc = "done" /\ bulk.out # "Ok") =>
            (UploadSent /\ ~bulk.reqs[Len(bulk.reqs)].ok)

\* units with an empty Text field, with no field at all and with an array: two of the
\* five yield text, from text and from source
C12_Witness ==
  /\ bulk.pc = "done"
  /\ bulk.out = "Ok"
  /\ Len(bulk.items) = 5
  /\ bulk.targetLangs = <<"fr">>
  /\ Len(bulk.translated) = 2
  /\ [k \in 1..Len(TranslateReqs) |-> TranslateReqs[k].text] = <<"b", "c">>

\* C13: in the manual fallback a failed download ends the call in an error with the
\* download as its only request; a failed upload ends it in an error, without the
\* completion sentinel; and a call that ends in an error has no upload that succeeded
C13_DownloadOrUploadFails ==
  (iamRoleArn = "" /\ bulk.pc = "done" /\ bulk.out # "ValidationError") =>
    /\ ~Downloaded =>
         /\ bulk.out = "Error"
         /\ Len(bulk.reqs) = 1
         /\ bulk.reqs[1].cmd = "GetObject"
         /\ bulk.ret = ""
    /\ (UploadSent /\ ~bulk.reqs[Len(bulk.reqs)].ok) =>
         /\ bulk.out = "Error"
         /\ bulk.ret # "manual-job-done"
    /\ bulk.out = "Error" =>
         \A k \in 1..Len(bulk.reqs) : ~(bulk.reqs[k].cmd = "PutObject" /\ bulk.reqs[k].ok)

\* a call whose translations were all made and whose upload then failed
C13_Witness ==
  /\ iamRoleArn = ""
  /\ bulk.pc = "done"
  /\ bulk.out = "Error"
  /\ Len(TranslateReqs) = 4
  /\ UploadSent
  /\ ~bulk.reqs[Len(bulk.reqs)].ok
-----------------------------------------------------------------------------
(* Claims about the terminology file *)

\* the entry is of the language the export was asked for
OfLanguage(e, targetLang) == toLowerCase(e.language) = trim(toLowerCase(targetLang))

\* the last call was an export that ended well
Exported == opCall.op = "convert" /\ opCall.out = "Ok"

\* the CSV text the last call handed to the storage service
UploadedCsv == opCall.reqs[Len(opCall.reqs)].body

\* the number of data rows of a CSV text, a header of three tokens before them
DataRows(csv) == (Len(csv) - 3) \div 4

\* the two cells of the k-th data row of a CSV text
SourceCell(csv, k) == csv[3 + 4 * (k - 1) + 2]

TargetCell(csv, k) == csv[3 + 4 * (k - 1) + 4]

\* C14: an export that ends well has uploaded, to the configured CSV key, a text with one
\* data row per entry of the language asked for and none for the other entries, the rows
\* in the order of the entries, each with the source and the translation of its entry
C14_OneRowPerEntryOfLanguage ==
  Exported =>
    LET csv == UploadedCsv
        mine == SelectSeq(opCall.entries0, LAMBDA e : OfLanguage(e, opCall.arg.s))
    IN /\ Len(opCall.reqs) = 1
       /\ opCall.reqs[1].cmd = "PutObject"
       /\ opCall.reqs[1].key = csvKey
       /\ csvObject = [exists |-> TRUE, body |-> csv]
       /\ Len(csv) = 3 + 4 * Len(mine)
       /\ \A k \in 1..Len(mine) :
            /\ csv[3 + 4 * (k - 1) + 1] = "\n"
            /\ SourceCell(csv, k) = Quote(mine[k].source)
            /\ csv[3 + 4 * (k - 1) + 3] = ","
            /\ TargetCell(csv, k) = Quote(mine[k].translation)

\* the same for every language asked for but the source language "en"
C14_HoldsForOtherLanguages ==
  (Exported /\ trim(toLowerCase(opCall.arg.s)) # sourceLangCode) =>
    C14_OneRowPerEntryOfLanguage

\* a cell that holds nothing, or white space only
BlankCell(cell) == cell = "" \/ \E w \in WhiteTokens \cup {""} : cell = Quote(w)

\* C15: the CSV text of an export that ends well has no data row with a blank source or
\* a blank translation
C15_NoBlankRows ==
  Exported =>
    \A k \in 1..DataRows(UploadedCsv) :
      ~BlankCell(SourceCell(UploadedCsv, k)) /\ ~BlankCell(TargetCell(UploadedCsv, k))

\* C16: an import called while no object is at the CSV key ends in an error, its only
\* request is the download that failed, and no object is at the CSV key after it
C16_ImportNeedsTheCsv ==
  (opCall.op = "import" /\ ~opCall.obj0.exists) =>
    /\ opCall.out \in {"Error", "ValidationError"}
    /\ \A k \in 1..Len(opCall.reqs) :
         opCall.reqs[k].cmd \notin {"ImportTerminology", "PutObject"}
    /\ opCall.out = "Error" =>
         (Len(opCall.reqs) = 1 /\ opCall.reqs[1].cmd = "GetObject" /\ ~opCall.reqs[1].ok)
    /\ ~csvObject.exists

\* an import, its arguments valid and no fault injected, that found no CSV object
C16_Witness ==
  /\ opCall.op = "import"
  /\ ~opCall.obj0.exists
  /\ opCall.arg = JStr("fr")
  /\ opCall.fault = "none"
  /\ opCall.out = "Error"
  /\ Len(dictionaryEntries) = 2
-----------------------------------------------------------------------------
(* Claims about single calls *)

\* C17: a call of translateText that validation lets through sends one request to the
\* translation service and no more: when the request fails the call ends in an error,
\* when it is answered the call returns the translated text of the answer
C17_TranslateOnce ==
  opCall.op = "translate" =>
    /\ Len(opCall.reqs) <= 1
    /\ opCall.out # "ValidationError" =>
         /\ Len(opCall.reqs) = 1
         /\ opCall.reqs[1].cmd = "TranslateText"
         /\ opCall.reqs[1].key = opCall.arg.s
         /\ ~opCall.reqs[1].ok => (opCall.out = "Error" /\ opCall.ret = "")
         /\ opCall.reqs[1].ok =>
              /\ opCall.out = "Ok"
              /\ opCall.ret = TranslatedText(opCall.reqs[1].key, opCall.reqs[1].opt)

\* a call of translateText whose one request failed
C17_Witness ==
  /\ opCall.op = "translate"
  /\ opCall.fault = "translate"
  /\ opCall.out = "Error"
  /\ Len(opCall.reqs) = 1
\* C18: a call of translateText, startBulkTranslation, addOrUpdateDictionaryEntry,
\* deleteDictionaryEntry, saveCustomDictionaryJson, convertJsonToAwsCsvAndUpload or
\* importDictionaryToAwsTranslate that validation rejects has sent no request, has
\* written no stored object and leaves the in-memory dictionary as it was
C18_RejectedCallsDoNothing ==
  [][(\/ last'.out = "ValidationError"
      \/ bulk'.out = "ValidationError"
      \/ opCall'.out = "ValidationError")
     => /\ dictionaryEntries' = dictionaryEntries
        /\ dictShape' = dictShape
        /\ jsonObject' = jsonObject
        /\ saved' = saved
        /\ csvObject' = csvObject
        /\ bulk'.reqs = <<>>
        /\ bulk'.pc \in {"idle", "done"}
        /\ opCall'.reqs = <<>>]_vars

\* an export called with an argument that is not a string, on a dictionary of two entries
C18_Witness ==
  /\ opCall.op = "convert"
  /\ opCall.out = "ValidationError"
  /\ opCall.fault = "none"
  /\ Len(dictionaryEntries) = 2
\* the requests of the last export or import that failed
FailedReqs == { i \in 1..Len(opCall.reqs) : ~opCall.reqs[i].ok }

\* C19: an export or import that validation let through ends well or in the
\* operation's generic error, and in the generic error whenever a request failed: no
\* fault reaches the caller in its raw form
C19_FaultsSurfaceAsGenericError ==
  opCall.op \in {"convert", "import"} /\ opCall.out # "ValidationError"
    => /\ opCall.out \in {"Ok", "Error"}
       /\ FailedReqs # {} => opCall.out = "Error"

\* C19, the part that holds: with every entry of the dictionary holding a language,
\* the exports and imports end well or in their generic error
C19_HoldsForWellFormedEntries ==
  /\ opCall.op \in {"convert", "import"}
  /\ opCall.out # "ValidationError"
  /\ ~filterThrows(opCall.entries0)
  => /\ opCall.out \in {"Ok", "Error"}
     /\ FailedReqs # {} => opCall.out = "Error"
(* Claims about autoTranslateMissing *)

\* what a pass over entries that ends, with the requests of fails failing, leaves
PassLeaves(before, after, fails) ==
  /\ Len(after) = Len(before)
  /\ \A i \in 1..Len(before) :
       IF i \in Missing(before) /\ i \notin fails
         THEN after[i] =
                [before[i] EXCEPT
                   !.translation =
                     TranslatedText(before[i].source,
                                    IF before[i].language = "" THEN defaultTargetLanguage
                                    ELSE before[i].language)]
         ELSE after[i] = before[i]

\* C20: autoTranslateMissing always ends without an error; each entry with a blank
\* translation and a non-blank source whose request succeeds holds the translation
\* into its own language, each one whose request fails is as it was, and so are the
\* other entries, the number of entries and their order
C20_PassAlwaysCompletes ==
  [][last'.op = "auto"
     => /\ last'.out = "Ok"
        /\ PassLeaves(dictionaryEntries, dictionaryEntries', last'.fails)]_vars

\* C20, the part that holds: on a dictionary that is a list the pass ends without an
\* error and leaves what the claim says
C20_HoldsForLists ==
  [][last'.op = "auto" /\ dictShape = "array"
     => /\ last'.out = "Ok"
        /\ PassLeaves(dictionaryEntries, dictionaryEntries', last'.fails)]_vars
(* Claims about the requests of the manual fallback *)

\* the translate requests the manual fallback has sent, in the order sent
TranslateIdx == { k \in 1..Len(bulk.reqs) : bulk.reqs[k].cmd = "TranslateText" }

\* C21: every translate request of the manual fallback is the request translateText
\* sends for that text and language: source language "en", the target language, and
\* the custom terminology name when one is set
C21_ManualRequestsAreTranslateTextRequests ==
  /\ Len(bulk.cmds) = Cardinality(TranslateIdx)
  /\ \A k \in 1..Len(bulk.cmds) :
       bulk.cmds[k] = translateTextCommand(bulk.cmds[k].Text, bulk.cmds[k].TargetLanguageCode)

\* C21, the part that holds: the k-th translate request carries the text and the
\* language of the k-th (unit, language) pair and the source language "en"
C21_SameTextAndLanguages ==
  /\ Len(bulk.cmds) = Cardinality(TranslateIdx)
  /\ \A k \in 1..Len(bulk.cmds) :
       LET r == bulk.reqs[k + 1]
           c == translateTextCommand(r.text, r.lang)
       IN /\ r.cmd = "TranslateText"
          /\ bulk.cmds[k].Text = c.Text
          /\ bulk.cmds[k].SourceLanguageCode = c.SourceLanguageCode
          /\ bulk.cmds[k].TargetLanguageCode = c.TargetLanguageCode
(* Claims about calls interleaved at their await points *)

\* the last addOrUpdateDictionaryEntry or deleteDictionaryEntry that took effect still
\* shows in the list: the entry added or updated is there with its translation, the
\* entry deleted is not there
LastCallStands ==
  IF last.op = "add" /\ last.out \in {"Added", "Updated"}
    THEN /\ dictShape = "array"
         /\ \E i \in 1..Len(dictionaryEntries) :
              /\ matches(dictionaryEntries[i], last.source, last.lang)
              /\ dictionaryEntries[i].translation = last.tr
  ELSE IF last.op = "delete" /\ last.out \in {"Deleted", "NoEntryFound"}
    THEN \A i \in 1..Len(dictionaryEntries) :
           ~matches(dictionaryEntries[i], last.source, last.lang)
  ELSE TRUE

\* C22: an addOrUpdateDictionaryEntry or deleteDictionaryEntry that ran while
\* loadCustomDictionaryJson, saveCustomDictionaryJson or autoTranslateMissing was
\* suspended is neither lost nor undone when the suspended call resumes
C22_NothingLostOrUndone ==
  pending.resumed /\ pending.wasTouched => LastCallStands

\* the last call that took effect updated the entry autoTranslateMissing was awaiting
\* the translation of
UpdatedTheAwaited ==
  /\ last.op = "add" /\ last.out = "Updated"
  /\ pending.rpos > 0
  /\ matches(pending.before[pending.rpos], last.source, last.lang)

\* what the object at jsonKey holds, as a load without faults reads it
Stored == loadCustomDictionaryJson(<<>>, "array", jsonObject, "none")

\* C22 as the code has it: a resumed saveCustomDictionaryJson leaves the list as it
\* is; a resumed autoTranslateMissing changes at most the translation of the entry it
\* awaited, so that only an update of that very entry can be overwritten; a resumed
\* loadCustomDictionaryJson that does not fail replaces the whole list by what it
\* read, and one that fails leaves the list as it is
C22_ResumeChanges ==
  pending.resumed =>
    CASE pending.rop = "save" ->
           /\ dictionaryEntries = pending.before
           /\ pending.wasTouched => LastCallStands
      [] pending.rop = "auto" ->
           /\ Len(dictionaryEntries) = Len(pending.before)
           /\ \A i \in 1..Len(dictionaryEntries) :
                \/ dictionaryEntries[i] = pending.before[i]
                \/ /\ i = pending.rpos
                   /\ dictionaryEntries[i] =
                        [pending.before[i] EXCEPT
                           !.translation =
                             TranslatedText(pending.before[i].source,
                                            IF pending.before[i].language = ""
                                              THEN defaultTargetLanguage
                                              ELSE pending.before[i].language)]
           /\ pending.wasTouched => LastCallStands \/ UpdatedTheAwaited
      [] pending.rop = "load" ->
           IF pending.out = "Error"
             THEN /\ dictionaryEntries = pending.before
                  /\ pending.wasTouched => LastCallStands
             ELSE dictionaryEntries = Stored.entries /\ dictShape = Stored.shape
      [] OTHER -> FALSE

\* an update of the entry autoTranslateMissing was awaiting, overwritten by the
\* translation when the call resumed
C22_Witness ==
  /\ pending.resumed /\ pending.wasTouched
  /\ pending.rop = "auto"
  /\ UpdatedTheAwaited
  /\ dictionaryEntries[pending.rpos].translation # last.tr
(* Claims about the order of the requests of the manual fallback *)

\* the (unit, language) pair of the k-th translate request of a call over the items
\* and the languages: unit by unit, and language by language within a unit
PairOf(k, langs) == <<((k - 1) \div Len(langs)) + 1, ((k - 1) % Len(langs)) + 1>>

\* C23: in the manual fallback at most one translate request is out at any time; the
\* requests go unit by unit in input order and, within a unit, language by language in
\* the order of the requested list; a call that comes to its upload has sent exactly
\* (retained units) x (requested languages) of them; and the upload is sent only when
\* no translate request is out any more, as the last request of the call
C23_OneAtATimeInOrder ==
  iamRoleArn = "" =>
    LET idx == RetainedIdx(bulk.items)
        langs == bulk.targetLangs
        asked == TranslateReqs
    IN /\ Cardinality(bulk.inflight) <= 1
       /\ bulk.pc = "await" <=> bulk.inflight # {}
       /\ bulk.inflight # {} =>
            bulk.inflight = {<<idx[PairOf(Len(asked) + 1, langs)[1]],
                               PairOf(Len(asked) + 1, langs)[2]>>}
       /\ \A k \in 1..Len(asked) :
            /\ PairOf(k, langs)[1] <= Len(idx)
            /\ asked[k].text = textOf(bulk.items[idx[PairOf(k, langs)[1]]])
            /\ asked[k].lang = langs[PairOf(k, langs)[2]]
       /\ \A k \in 1..Len(bulk.reqs) :
            bulk.reqs[k].cmd = "TranslateText" => (k > 1 /\ bulk.reqs[k] = asked[k - 1])
       /\ (bulk.pc = "upload" \/ UploadSent) =>
            /\ Len(asked) = Len(idx) * Len(langs)
            /\ bulk.inflight = {}
       /\ \A k \in 1..Len(bulk.reqs) :
            bulk.reqs[k].cmd = "PutObject" => k = Len(bulk.reqs) /\ bulk.pc = "done"

\* a call over two units and two languages whose four requests are answered or failed
\* and whose upload is sent
C23_Witness ==
  /\ iamRoleArn = ""
  /\ UploadSent
  /\ Len(RetainedIdx(bulk.items)) = 2
  /\ bulk.targetLangs = <<"de", "fr">>
  /\ Len(TranslateReqs) = 4
  /\ bulk.failed # {}
(* Claims about the records of the output *)

\* the tags of a list of requested languages
TagsOf(langs) == { langs[j] : j \in 1..Len(langs) }

\* the keys of a record
KeysOf(record) == { record.a[i].s : i \in 1..Len(record.a) }

\* the record of a unit holds the unit's text as original and one further field per
\* requested tag
RecordAsClaimed(record, text, langs) ==
  /\ record.t = "obj"
  /\ HasField(record, "original")
  /\ Field(record, "original") = JStr(text)
  /\ Len(record.a) = 1 + Cardinality(TagsOf(langs))
  /\ KeysOf(record) \ {"original"} = TagsOf(langs)

\* the output holds one record per retained unit, in input order, each as claimed
OutputAsClaimed ==
  LET output == JSONparse(bulk.body)
      idx == RetainedIdx(bulk.items)
  IN /\ output.ok
     /\ output.v.t = "arr"
     /\ Len(output.v.a) = Len(idx)
     /\ \A k \in 1..Len(idx) :
          RecordAsClaimed(output.v.a[k], textOf(bulk.items[idx[k]]), bulk.targetLangs)

\* C25: the output uploaded by the manual fallback is a list of one record per retained
\* unit, in input order; in each record original holds the unit's text and there is
\* one further field per requested language tag, whatever the list of tags: empty,
\* with a tag repeated, with the tag "original"
C25_OneRecordPerUnit ==
  (iamRoleArn = "" /\ UploadSent) => OutputAsClaimed

\* C25, the part that holds: so it is for every list of tags without the tag "original"
C25_HoldsWithoutOriginalTag ==
  (iamRoleArn = "" /\ UploadSent /\ "original" \notin TagsOf(bulk.targetLangs))
    => OutputAsClaimed
(* Claims about the export followed by the import *)

\* C24: an import that follows a successful export, with nothing else written to the
\* CSV object in between, reads the key the export wrote, and unless its download
\* fails it submits exactly the CSV content of that export, with merge strategy
\* OVERWRITE and under the configured terminology name
C24_ImportSubmitsTheExport ==
  [][(/\ opCall.op = "convert" /\ opCall.out = "Ok"
      /\ opCall'.op = "import" /\ opCall'.out # "ValidationError")
     => LET put == opCall.reqs[1]
            get == opCall'.reqs[1]
        IN /\ put.cmd = "PutObject" /\ put.ok
           /\ get.cmd = "GetObject"
           /\ get.key = put.key
           /\ opCall'.fault = "none" =>
                /\ Len(opCall'.reqs) = 2
                /\ opCall'.reqs[2].cmd = "ImportTerminology"
                /\ opCall'.reqs[2].body = put.body
                /\ opCall'.reqs[2].opt = "OVERWRITE"
                /\ opCall'.reqs[2].key = customDictionaryName]_vars

\* an import that the service accepted, of a file with a data row that an export wrote
C24_Witness ==
  /\ opCall.op = "import"
  /\ opCall.out = "Ok"
  /\ csvObject.exists
  /\ csvObject # StaleCsv
  /\ DataRows(csvObject.body) >= 1
  /\ opCall.reqs[2].body = csvObject.body
(* Claims about what the operations leave alone *)

\* the list of entries is not what it was
EntriesChange == dictionaryEntries' # dictionaryEntries \/ dictShape' # dictShape

\* C26: translateText, startBulkTranslation in both branches,
\* convertJsonToAwsCsvAndUpload, importDictionaryToAwsTranslate and listBucketFiles
\* leave the in-memory dictionary as it is, whether they end well or not; a step that
\* changes it is a step of loadCustomDictionaryJson, addOrUpdateDictionaryEntry,
\* deleteDictionaryEntry or autoTranslateMissing
C26_OnlyFourOperationsChangeEntries ==
  [][/\ (opCall' # opCall \/ bulk' # bulk) => ~EntriesChange
     /\ EntriesChange => /\ last' # last
                         /\ last'.op \in {"load", "add", "delete", "auto"}
                         /\ opCall' = opCall
                         /\ bulk' = bulk]_vars

\* a manual bulk translation of two units run to its end on a manager whose dictionary
\* holds two entries
C26_Witness ==
  /\ iamRoleArn = ""
  /\ bulk.pc = "done"
  /\ bulk.out = "Ok"
  /\ Len(bulk.translated) = 2
  /\ dictionaryEntries = <<Entry("a", "fr", " "), Entry("b", "FR", "x")>>
====
